---- MODULE Spec2Model ----
(***************************************************************************)
(* A model of InnerBoard-local's key manager (app/security.py,             *)
(* SecureKeyManager) and encrypted record store (app/storage.py,           *)
(* EncryptedVault).                                                        *)
(*                                                                         *)
(* Cryptography is modelled symbolically:                                  *)
(*  - secrets.token_bytes draws a value never drawn before (a counter);    *)
(*  - PBKDF2 and SHA-256 are injective constructors of their arguments;    *)
(*  - a Fernet token records the key it was made under, its plaintext and  *)
(*    its IV, and decrypts exactly under that key.                         *)
(* A key value stands for the url-safe base64 text of the 32 derived       *)
(* bytes, which is what the program carries around as "the key".           *)
(***************************************************************************)
EXTENDS Integers, Sequences, FiniteSets, TLC

VARIABLES
    fs,        \* the key directory: path -> file content
    mk,        \* manager -> self._master_key
    msalt,     \* manager -> self._salt (0 is None)
    pc,        \* manager -> position inside save_master_key
    kd,        \* manager -> key_data_json being written by the save in progress
    spw,       \* manager -> password argument of the save in progress
    rnd,       \* number of random values drawn so far
    korigin,   \* history: who put the current content at the key path
    last       \* the last completed call: its arguments and its outcome

kmvars == <<fs, mk, msalt, pc, kd, spw, rnd, korigin, last>>

VARIABLES
    tbl,       \* the reflections table: a set of rows
    seq,       \* sqlite_sequence: the largest id AUTOINCREMENT has given out
    clock,     \* CURRENT_TIMESTAMP
    vkey,      \* store handle -> the key of self.cipher (NoKey: not constructed)
    conn,      \* store handle -> "unopened" (no object), "open", "closed" (self.conn is None)
    dbfile,    \* the database file exists
    vlast      \* the last completed store call: its arguments and its outcome

vvars == <<tbl, seq, clock, vkey, conn, dbfile, vlast>>

VARIABLES
    dfile,     \* the file secure_delete_file is called on: exists, size, data
    dpc,       \* position inside secure_delete_file
    dsize,     \* its local variable size
    dlast      \* how the last call of secure_delete_file ended

dvars == <<dfile, dpc, dsize, dlast>>

VARIABLES
    cmax,      \* TTLCache.max_size (0: no cache constructed)
    cache,     \* TTLCache._cache: key -> the entry's "expires", or NoEntry
    ctime,     \* time.time()
    clast      \* the last cache call

cvars == <<cmax, cache, ctime, clast>>

VARIABLES
    pmax,      \* ConnectionPool.max_size (NoPool: no pool constructed)
    pool,      \* ConnectionPool._pool: a list of connections
    made,      \* the number of connections the factory has made
    plock,     \* the thread that holds ConnectionPool._lock (0: nobody)
    ppc,       \* thread -> where it is inside a pool method, and put's argument
    plast      \* the last pool call that returned

pvars == <<pmax, pool, made, plock, ppc, plast>>

VARIABLES
    connect,   \* what socket.socket.connect is bound to
    guards,    \* the no_network contexts entered and not yet left, innermost last
    nlast      \* the last connect call made inside a context

nvars == <<connect, guards, nlast>>

xvars == <<dvars, cvars, pvars, nvars>>

vars == <<kmvars, vvars, xvars>>

-----------------------------------------------------------------------------
(* Bounds *)

MaxRand == 4

MaxSize == 3

MaxTime == 3

MaxCacheSize == 2

MaxPoolSize == 2

MaxConn == 2

\* the deepest nesting of no_network contexts
MaxDepth == 2

Managers == {1, 2}

(* Passwords.  NoPw is Python's None; "" is the empty string. *)
NoPw == "<None>"

Passwords == {NoPw, "", "p", "q"}

(* The passwords keys are generated and saved with; "q" is only ever tried. *)
WritePasswords == {NoPw, "", "p"}

(* `if password:` -- None and the empty string are both falsy. *)
Truthy(pw) == pw # NoPw /\ pw # ""

-----------------------------------------------------------------------------
(* Program constants *)

SALT_SIZE == 32

KEY_SIZE == 32

ITERATIONS == 100000

-----------------------------------------------------------------------------
(* Symbolic cryptography *)

(* PBKDF2HMAC(SHA256, length, salt, iterations).derive(password_bytes),     *)
(* url-safe base64 encoded.  Password bytes are either a password's UTF-8   *)
(* bytes (rnd = 0) or the rnd-th random draw (pw = "").                     *)
PBKDF2(pw, r, salt, it) == [pw |-> pw, rnd |-> r, salt |-> salt, it |-> it]

NoKey == [pw |-> NoPw, rnd |-> 0, salt |-> 0, it |-> 0]

(* Keys that exist outside this program: an older vault's raw key file, and *)
(* the key a JSON text happens to spell when read as base64.                *)
LegacyKey == [pw |-> "<legacy>", rnd |-> 0, salt |-> 0, it |-> 0]

PolyglotKey == [pw |-> "<polyglot>", rnd |-> 0, salt |-> 0, it |-> 0]

(* hashlib.sha256(x).hexdigest() *)
Digest(x) == [sha |-> x]

(* Fernet(key).encrypt(pt), with the token's random IV. *)
Encrypt(k, pt, iv) == [k |-> k, pt |-> pt, iv |-> iv]

NoToken == [k |-> NoKey, pt |-> NoKey, iv |-> 0]

(* A faulty decrypt: any token passes, whatever key made it. *)
DecryptUnchecked(k, token) == token # NoToken

(* Fernet(key).decrypt(token) raises InvalidToken unless the token was made *)
(* under that key. *)
DecryptOk(k, token) == token # NoToken /\ token.k = k

-----------------------------------------------------------------------------
(* File contents *)

KeyPath == 0

TmpPath(m) == m

Paths == {KeyPath} \cup {TmpPath(m) : m \in Managers}

(* The fields of a key record in the order json.dumps writes them. *)
FieldOrder(last_field) == <<"version", "salt", "key_hash", "iterations", last_field>>

(* kind: "absent"  no file                                                  *)
(*       "json"    a complete JSON object with the fields in `has`          *)
(*       "partial" a truncated JSON text holding the fields in `has`        *)
(*       "raw"     text that is not JSON                                    *)
(*       "binary"  bytes that are not text in the platform's encoding       *)
(*       "json_value" JSON whose top level is not an object (a list, a      *)
(*                 number, a string, null)                                  *)
(* bytes_key: the Fernet key the file's whole byte content spells, or NoKey *)
Content(kind, has, salt, hash, it, ek, mkey, bk) ==
    [kind |-> kind, has |-> has, version |-> IF "version" \in has THEN 1 ELSE 0,
     salt |-> salt, key_hash |-> hash, iterations |-> it,
     encrypted_key |-> ek, master_key |-> mkey, bytes_key |-> bk]

Absent == Content("absent", {}, 0, Digest(NoKey), 0, NoToken, NoKey, NoKey)

EmptyFile == Content("partial", {}, 0, Digest(NoKey), 0, NoToken, NoKey, NoKey)

LegacyFile == Content("raw", {}, 0, Digest(NoKey), 0, NoToken, NoKey, LegacyKey)

PolyglotFile == Content("json", {"k"}, 0, Digest(NoKey), 0, NoToken, NoKey, PolyglotKey)

(* Files that hold no record at all: text that is not JSON, bytes that are  *)
(* not text, and the JSON text [] . *)
GarbageFile == Content("raw", {}, 0, Digest(NoKey), 0, NoToken, NoKey, NoKey)

BinaryFile == Content("binary", {}, 0, Digest(NoKey), 0, NoToken, NoKey, NoKey)

JsonListFile == Content("json_value", {}, 0, Digest(NoKey), 0, NoToken, NoKey, NoKey)

(* Field values of a record that are not what save writes: a salt or an     *)
(* encrypted_key string base64.b64decode rejects, and an iterations value   *)
(* that is a JSON string. *)
NotBase64 == 0 - 1

UndecodableToken == [k |-> NoKey, pt |-> NoKey, iv |-> 0 - 1]

TextIterations == 0 - 2

(* The first n fields of record c, the text cut off after them. *)
Prefix(c, n) ==
    LET order == FieldOrder(IF "encrypted_key" \in c.has THEN "encrypted_key" ELSE "master_key")
        keep  == {order[i] : i \in 1..n}
    IN  Content("partial", keep,
                IF "salt" \in keep THEN c.salt ELSE 0,
                IF "key_hash" \in keep THEN c.key_hash ELSE Digest(NoKey),
                IF "iterations" \in keep THEN c.iterations ELSE 0,
                IF "encrypted_key" \in keep THEN c.encrypted_key ELSE NoToken,
                IF "master_key" \in keep THEN c.master_key ELSE NoKey,
                NoKey)

-----------------------------------------------------------------------------
(* SecureKeyManager *)

(* A faulty draw: the same value every time. *)
SaltDrawFixed(r) == 1

(* secrets.token_bytes(self.SALT_SIZE): the next fresh value. *)
SaltDraw(r) == r + 1

(* generate_master_key: the key, the salt and the number of random draws. *)
generate_master_key(pw, r) ==
    LET salt == SaltDraw(r)
    IN  IF Truthy(pw)
        THEN [key |-> PBKDF2(pw, 0, salt, ITERATIONS), salt |-> salt, used |-> 1]
        ELSE [key |-> PBKDF2("", r + 2, salt, ITERATIONS), salt |-> salt, used |-> 2]

(* A faulty wrapping key: derived at the full iteration count, which load  *)
(* does not use. *)
SaveEncKeyFullCost(pw, salt) == PBKDF2(pw, 0, salt, ITERATIONS)

(* The wrapping key save derives from the password. *)
SaveEncKey(pw, salt) == PBKDF2(pw, 0, salt, ITERATIONS \div 10)

(* A faulty key_data: the plain master_key is written next to the wrapped   *)
(* one. *)
KeyDataLeaky(key, salt, pw, r) ==
    IF Truthy(pw)
    THEN Content("json", {"version", "salt", "key_hash", "iterations", "encrypted_key",
                          "master_key"},
                 salt, Digest(key), ITERATIONS,
                 Encrypt(SaveEncKey(pw, salt), key, r + 1), key, NoKey)
    ELSE Content("json", {"version", "salt", "key_hash", "iterations", "master_key"},
                 salt, Digest(key), ITERATIONS, NoToken, key, NoKey)

(* key_data as save_master_key builds it; r is the random counter (the      *)
(* token's IV is the next draw). *)
KeyData(key, salt, pw, r) ==
    IF Truthy(pw)
    THEN Content("json", {"version", "salt", "key_hash", "iterations", "encrypted_key"},
                 salt, Digest(key), ITERATIONS,
                 Encrypt(SaveEncKey(pw, salt), key, r + 1), NoKey, NoKey)
    ELSE Content("json", {"version", "salt", "key_hash", "iterations", "master_key"},
                 salt, Digest(key), ITERATIONS, NoToken, key, NoKey)

SaveDraws(pw) == IF Truthy(pw) THEN 1 ELSE 0

(* A faulty save: key_data_json is written straight to the key path. *)
WritePathDirect(m) == KeyPath

(* Where save writes key_data_json before the rename: a temporary file of   *)
(* its own in the key file's directory. *)
WritePath(m) == TmpPath(m)

Outcome(status, key, salt) == [status |-> status, key |-> key, salt |-> salt]

(* A faulty load: the integrity check is left out. *)
HashCheckSkipped(master_key, stored_hash) == TRUE

(* The integrity check of _load_v1_key. *)
HashCheck(master_key, stored_hash) == Digest(master_key) = stored_hash

(* A faulty load: the work factor is the manager's constant. *)
LoadIterationsConstant(c) == ITERATIONS

(* `iterations = key_data["iterations"]` *)
LoadIterations(c) == c.iterations

(* _load_v1_key(key_data, password), in the order of its statements.  An   *)
(* exception that load_master_key does not catch is the outcome's status. *)
load_v1_key(c, pw) ==
    IF "salt" \notin c.has
    THEN Outcome("InvalidKeyError", NoKey, 0)              \* KeyError, caught by the caller
    ELSE IF c.salt = NotBase64
    THEN Outcome("binascii.Error", NoKey, 0)               \* base64.b64decode(key_data["salt"])
    ELSE IF ~({"key_hash", "iterations"} \subseteq c.has)
    THEN Outcome("InvalidKeyError", NoKey, 0)              \* KeyError
    ELSE IF "encrypted_key" \in c.has
    THEN IF ~Truthy(pw)
         THEN Outcome("InvalidKeyError", NoKey, 0)         \* password required
         ELSE IF c.encrypted_key = UndecodableToken
         THEN Outcome("binascii.Error", NoKey, 0)          \* base64.b64decode(key_data["encrypted_key"])
         ELSE IF c.iterations = TextIterations
         THEN Outcome("TypeError", NoKey, 0)               \* iterations // 10
         ELSE IF ~DecryptOk(PBKDF2(pw, 0, c.salt, LoadIterations(c) \div 10), c.encrypted_key)
         THEN Outcome("InvalidKeyError", NoKey, 0)         \* invalid password
         ELSE IF ~HashCheck(c.encrypted_key.pt, c.key_hash)
         THEN Outcome("InvalidKeyError", NoKey, 0)         \* integrity check failed
         ELSE Outcome("ok", c.encrypted_key.pt, c.salt)
    ELSE IF "master_key" \notin c.has
    THEN Outcome("InvalidKeyError", NoKey, 0)              \* KeyError
    ELSE IF ~HashCheck(c.master_key, c.key_hash)
    THEN Outcome("InvalidKeyError", NoKey, 0)
    ELSE Outcome("ok", c.master_key, c.salt)

(* _load_legacy_key(): the raw file content, if Fernet() accepts it.  It     *)
(* sets only self._master_key (salt 0 here means "left as it was"). *)
load_legacy_key(c) ==
    IF c.bytes_key # NoKey
    THEN Outcome("ok_legacy", c.bytes_key, 0)
    ELSE Outcome("InvalidKeyError", NoKey, 0)

(* load_master_key(password) on a key file of content c *)
load_master_key(c, pw) ==
    IF c.kind = "absent"
    THEN Outcome("KeyNotFoundError", NoKey, 0)
    ELSE IF c.kind = "binary"
    THEN Outcome("UnicodeDecodeError", NoKey, 0)           \* f.read() inside json.load
    ELSE IF c.kind = "json_value"
    THEN Outcome("AttributeError", NoKey, 0)               \* key_data.get
    ELSE IF c.kind # "json"
    THEN Outcome("InvalidKeyError", NoKey, 0)              \* json.JSONDecodeError
    ELSE IF c.version = 1
    THEN load_v1_key(c, pw)
    ELSE load_legacy_key(c)

(* A faulty load: the key is assigned before the checks have passed. *)
LoadedBeforeChecks(o) == TRUE

(* The statuses with which load reaches its assignments to self._master_key *)
(* and self._salt. *)
Loaded(o) == o.status \in {"ok", "ok_legacy"}

-----------------------------------------------------------------------------
NoOrigin == [by |-> "none", spw |-> NoPw, key |-> NoKey]

(* The key a file content holds, wrapped or not. *)
PersistedKey(c) ==
    IF "encrypted_key" \in c.has THEN c.encrypted_key.pt
    ELSE IF "master_key" \in c.has THEN c.master_key
    ELSE c.bytes_key

(* The record of a completed call: operation, password argument, outcome,   *)
(* returned key, the origin of the key file it read or replaced, and the    *)
(* key that file held. *)
Last(op, pw, status, key, origin, prev) ==
    [op |-> op, pw |-> pw, status |-> status, key |-> key,
     origin |-> origin, prev |-> prev]

NoLast == Last("none", NoPw, "ok", NoKey, NoOrigin, NoKey)

(* SecureKeyManager(key_path): a fresh manager object for the key path. *)
NewManager(m) ==
    /\ pc[m] = "idle"
    /\ mk[m] # NoKey
    /\ mk' = [mk EXCEPT ![m] = NoKey]
    /\ msalt' = [msalt EXCEPT ![m] = 0]
    /\ last' = NoLast
    /\ UNCHANGED <<fs, pc, kd, spw, rnd, korigin, vvars, xvars>>

Generate(m, pw) ==
    /\ pc[m] = "idle"
    /\ LET g == generate_master_key(pw, rnd)
       IN  /\ rnd + g.used <= MaxRand
           /\ mk' = [mk EXCEPT ![m] = g.key]
           /\ msalt' = [msalt EXCEPT ![m] = g.salt]
           /\ rnd' = rnd + g.used
    /\ last' = NoLast
    /\ UNCHANGED <<fs, pc, kd, spw, korigin, vvars, xvars>>

(* save_master_key with no key or no salt in memory: EncryptionError. *)
SaveNoKey(m, pw) ==
    /\ pc[m] = "idle"
    /\ mk[m] = NoKey \/ msalt[m] = 0
    /\ last' = Last("save", pw, "EncryptionError", NoKey, korigin, PersistedKey(fs[KeyPath]))
    /\ UNCHANGED <<fs, mk, msalt, pc, kd, spw, rnd, korigin, vvars, xvars>>

(* save_master_key up to the creation of the temporary file. *)
SaveBegin(m, pw) ==
    /\ pc[m] = "idle"
    /\ mk[m] # NoKey /\ msalt[m] # 0
    /\ rnd + SaveDraws(pw) <= MaxRand
    /\ kd' = [kd EXCEPT ![m] = KeyData(mk[m], msalt[m], pw, rnd)]
    /\ rnd' = rnd + SaveDraws(pw)
    /\ spw' = [spw EXCEPT ![m] = pw]
    /\ fs' = [fs EXCEPT ![WritePath(m)] = EmptyFile]
    /\ pc' = [pc EXCEPT ![m] = "created"]
    /\ last' = NoLast
    /\ UNCHANGED <<mk, msalt, korigin, vvars, xvars>>

(* temp_file.write(key_data_json) and the close that ends the with block *)
SaveWrite(m) ==
    /\ pc[m] = "created"
    /\ fs' = [fs EXCEPT ![WritePath(m)] = kd[m]]
    /\ pc' = [pc EXCEPT ![m] = "written"]
    /\ last' = NoLast
    /\ UNCHANGED <<mk, msalt, kd, spw, rnd, korigin, vvars, xvars>>

(* temp_path.replace(self.key_path): the rename, and the return of save     *)
(* (and of rotate_key when it made the call). *)
SaveReplace(m) ==
    /\ pc[m] = "written"
    /\ fs' = [fs EXCEPT ![WritePath(m)] = Absent, ![KeyPath] = fs[WritePath(m)]]
    /\ pc' = [pc EXCEPT ![m] = "idle"]
    /\ korigin' = [by |-> "save", spw |-> spw[m], key |-> mk[m]]
    /\ last' = Last("save", spw[m], "ok", mk[m], korigin, PersistedKey(fs[KeyPath]))
    /\ kd' = [kd EXCEPT ![m] = Absent]
    /\ spw' = [spw EXCEPT ![m] = NoPw]
    /\ UNCHANGED <<mk, msalt, rnd, vvars, xvars>>

(* The write reaches the disk in pieces: the temporary file holds a prefix  *)
(* of key_data_json. *)
SaveWritePart(m) ==
    /\ pc[m] = "created"
    /\ \E n \in 1..5 :
          /\ Cardinality(fs[WritePath(m)].has) < n
          /\ fs' = [fs EXCEPT ![WritePath(m)] = Prefix(kd[m], n)]
    /\ last' = NoLast
    /\ UNCHANGED <<mk, msalt, pc, kd, spw, rnd, korigin, vvars, xvars>>

(* The process dies inside save: the manager object is gone.  The temporary *)
(* file stays on disk as far as it was written, under a name no later call  *)
(* opens; fs stops tracking it. *)
Crash(m) ==
    /\ pc[m] # "idle"
    /\ fs' = [fs EXCEPT ![WritePath(m)] = IF WritePath(m) = KeyPath THEN @ ELSE Absent]
    /\ pc' = [pc EXCEPT ![m] = "idle"]
    /\ mk' = [mk EXCEPT ![m] = NoKey]
    /\ msalt' = [msalt EXCEPT ![m] = 0]
    /\ kd' = [kd EXCEPT ![m] = Absent]
    /\ spw' = [spw EXCEPT ![m] = NoPw]
    /\ last' = Last("crash", spw[m], "crash", NoKey, korigin, PersistedKey(fs[KeyPath]))
    /\ UNCHANGED <<rnd, korigin, vvars, xvars>>

(* load_master_key(password) *)
Load(m, pw) ==
    /\ pc[m] = "idle"
    /\ LET o == load_master_key(fs[KeyPath], pw)
       IN  /\ mk' = [mk EXCEPT ![m] = IF Loaded(o) THEN o.key ELSE @]
           /\ msalt' = [msalt EXCEPT ![m] = IF o.status = "ok" THEN o.salt ELSE @]
           /\ last' = Last("load", pw, o.status, o.key, korigin, PersistedKey(fs[KeyPath]))
    /\ UNCHANGED <<fs, pc, kd, spw, rnd, korigin, vvars, xvars>>

(* save_master_key(password), start to return, when nothing interrupts it:  *)
(* key_data is written to the temporary file and renamed over the key path. *)
Save(m, pw) ==
    /\ mk[m] # NoKey /\ msalt[m] # 0
    /\ rnd + SaveDraws(pw) <= MaxRand
    /\ fs' = [fs EXCEPT ![KeyPath] = KeyData(mk[m], msalt[m], pw, rnd)]
    /\ rnd' = rnd + SaveDraws(pw)
    /\ korigin' = [by |-> "save", spw |-> pw, key |-> mk[m]]
    /\ last' = Last("save", pw, "ok", mk[m], korigin, PersistedKey(fs[KeyPath]))
    /\ UNCHANGED <<mk, msalt, pc, kd, spw, vvars, xvars>>

(* rotate_key(new_password): generate_master_key, then save_master_key. *)
Rotate(m, pw) ==
    LET g == generate_master_key(pw, rnd)
    IN  /\ rnd + g.used + SaveDraws(pw) <= MaxRand
        /\ mk' = [mk EXCEPT ![m] = g.key]
        /\ msalt' = [msalt EXCEPT ![m] = g.salt]
        /\ fs' = [fs EXCEPT ![KeyPath] = KeyData(g.key, g.salt, pw, rnd + g.used)]
        /\ rnd' = rnd + g.used + SaveDraws(pw)
        /\ korigin' = [by |-> "save", spw |-> pw, key |-> g.key]
        /\ last' = Last("rotate", pw, "ok", g.key, korigin, PersistedKey(fs[KeyPath]))
        /\ UNCHANGED <<pc, kd, spw, vvars, xvars>>

(* Where save_master_key can raise OSError once it has built key_data: in  *)
(* NamedTemporaryFile, in temp_file.write, in temp_path.replace. *)
SaveFaults == {"create", "write", "replace"}

(* The temporary file a save leaves behind when it raises at `fault`;       *)
(* delete=False keeps it. *)
LeftBehind(c, fault) ==
    CASE fault = "create" -> Absent
      [] fault = "write" -> EmptyFile
      [] OTHER -> c

(* rotate_key(new_password) when the save it calls raises OSError:          *)
(* generate_master_key has returned, save_master_key does not reach the     *)
(* end of the rename, and rotate_key passes the error on. *)
RotateSaveFails(m, pw, fault) ==
    LET g == generate_master_key(pw, rnd)
    IN  /\ pc[m] = "idle"
        /\ rnd + g.used + SaveDraws(pw) <= MaxRand
        /\ mk' = [mk EXCEPT ![m] = g.key]
        /\ msalt' = [msalt EXCEPT ![m] = g.salt]
        /\ fs' = [fs EXCEPT ![WritePath(m)] =
                     LeftBehind(KeyData(g.key, g.salt, pw, rnd + g.used), fault)]
        /\ rnd' = rnd + g.used + SaveDraws(pw)
        /\ last' = Last("rotate", pw, "OSError", NoKey, korigin, PersistedKey(fs[KeyPath]))
        /\ UNCHANGED <<pc, kd, spw, korigin, vvars, xvars>>

-----------------------------------------------------------------------------
(* The environment of the key file: files from older versions, and changes  *)
(* made to the file by something other than this program. *)

EnvOrigin == [by |-> "env", spw |-> NoPw, key |-> NoKey]

EnvPut(c) ==
    /\ fs' = [fs EXCEPT ![KeyPath] = c]
    /\ korigin' = EnvOrigin
    /\ last' = NoLast
    /\ UNCHANGED <<mk, msalt, pc, kd, spw, rnd, vvars, xvars>>

(* An older vault: the key file is a raw Fernet key. *)
PutLegacy ==
    /\ fs[KeyPath].kind = "absent"
    /\ EnvPut(LegacyFile)

(* A JSON object without "version" whose text also reads as a Fernet key. *)
PutPolyglot ==
    /\ fs[KeyPath].kind = "absent"
    /\ EnvPut(PolyglotFile)

(* The record's key_hash is replaced by another digest. *)
TamperHash ==
    /\ korigin.by = "save"
    /\ "key_hash" \in fs[KeyPath].has
    /\ fs[KeyPath].key_hash # Digest(LegacyKey)
    /\ EnvPut([fs[KeyPath] EXCEPT !.key_hash = Digest(LegacyKey)])

(* The record's master_key is replaced by another key. *)
TamperMasterKey ==
    /\ korigin.by = "save"
    /\ "master_key" \in fs[KeyPath].has
    /\ fs[KeyPath].master_key # LegacyKey
    /\ EnvPut([fs[KeyPath] EXCEPT !.master_key = LegacyKey])

(* The record loses its version field. *)
DropVersion ==
    /\ korigin.by = "save"
    /\ "version" \in fs[KeyPath].has
    /\ EnvPut([fs[KeyPath] EXCEPT !.has = @ \ {"version"}, !.version = 0])

RemoveFile ==
    /\ korigin.by = "env"
    /\ EnvPut(Absent)

(* A file that holds no record is found at the key path. *)
PutUnreadable(c) ==
    /\ fs[KeyPath].kind = "absent"
    /\ EnvPut(c)

(* The record loses one of its fields. *)
DropField(f) ==
    /\ korigin.by = "save"
    /\ f \in fs[KeyPath].has
    /\ EnvPut([fs[KeyPath] EXCEPT !.has = @ \ {f}])

(* The salt of the record is replaced by text that is not base64. *)
BreakSalt ==
    /\ korigin.by = "save"
    /\ EnvPut([fs[KeyPath] EXCEPT !.salt = NotBase64])

(* The encrypted_key of the record is replaced by text that is not base64. *)
BreakEncryptedKey ==
    /\ korigin.by = "save"
    /\ "encrypted_key" \in fs[KeyPath].has
    /\ EnvPut([fs[KeyPath] EXCEPT !.encrypted_key = UndecodableToken])

(* The iterations of the record are replaced by a JSON string. *)
BreakIterations ==
    /\ korigin.by = "save"
    /\ EnvPut([fs[KeyPath] EXCEPT !.iterations = TextIterations])

(* Work factors of other builds of the program: ITERATIONS is a class       *)
(* attribute that a release can change. *)
BuildIterations == {ITERATIONS + 5, ITERATIONS * 2, ITERATIONS \div 2}

(* The key file is what generate_master_key(pw) and save_master_key(pw) of  *)
(* a build whose ITERATIONS is `it` wrote. *)
SaveOfBuild(it, pw) ==
    /\ Truthy(pw)
    /\ rnd + 2 <= MaxRand
    /\ LET salt == SaltDraw(rnd)
           key  == PBKDF2(pw, 0, salt, it)
       IN  /\ fs' = [fs EXCEPT ![KeyPath] =
                        Content("json", {"version", "salt", "key_hash", "iterations", "encrypted_key"},
                                salt, Digest(key), it,
                                Encrypt(PBKDF2(pw, 0, salt, it \div 10), key, rnd + 2),
                                NoKey, NoKey)]
           /\ korigin' = [by |-> "build", spw |-> pw, key |-> key]
    /\ rnd' = rnd + 2
    /\ last' = NoLast
    /\ UNCHANGED <<mk, msalt, pc, kd, spw, vvars, xvars>>

-----------------------------------------------------------------------------
(* secure_delete_file *)

(* The file at file_path.  data: "secret" what its owner wrote, "none" an   *)
(* empty file, "random" the bytes of secrets.token_bytes. *)
File(exists, size, data) == [exists |-> exists, size |-> size, data |-> data]

NoFile == File(FALSE, 0, "none")

(* Some program writes a file of n bytes at the path. *)
CreateFile(n) ==
    /\ dpc = "idle"
    /\ ~dfile.exists
    /\ dfile' = File(TRUE, n, IF n = 0 THEN "none" ELSE "secret")
    /\ dlast' = "none"
    /\ UNCHANGED <<dpc, dsize, kmvars, vvars, cvars, pvars, nvars>>

(* `if not file_path.exists(): return`.  Path.exists() returns False when   *)
(* stat fails with ENOENT, ENOTDIR, EBADF or ELOOP and raises any other     *)
(* OSError (EACCES on a directory of the path, ENAMETOOLONG); the check is  *)
(* outside the try block. *)
DeleteEnter(fault) ==
    /\ dpc = "idle"
    /\ IF fault
       THEN /\ dlast' = "OSError"
            /\ dpc' = dpc
       ELSE IF ~dfile.exists
       THEN /\ dlast' = "returned"
            /\ dpc' = dpc
       ELSE /\ dlast' = "none"
            /\ dpc' = "try"
    /\ UNCHANGED <<dfile, dsize, kmvars, vvars, cvars, pvars, nvars>>

(* size = file_path.stat().st_size *)
DeleteStat(fault) ==
    /\ dpc = "try"
    /\ IF fault
       THEN dpc' = "except" /\ dsize' = dsize
       ELSE dpc' = "sized" /\ dsize' = dfile.size
    /\ UNCHANGED <<dfile, dlast, kmvars, vvars, cvars, pvars, nvars>>

(* open(file_path, "wb"): the file is truncated. *)
DeleteOpen(fault) ==
    /\ dpc = "sized"
    /\ IF fault
       THEN dpc' = "except" /\ dfile' = dfile
       ELSE dpc' = "opened" /\ dfile' = File(TRUE, 0, "none")
    /\ UNCHANGED <<dsize, dlast, kmvars, vvars, cvars, pvars, nvars>>

(* f.write(secrets.token_bytes(size)) and the end of the with block.  A     *)
(* write that fails has written n of the bytes. *)
DeleteWrite(fault, n) ==
    /\ dpc = "opened"
    /\ IF fault
       THEN /\ n < dsize
            /\ dpc' = "except"
            /\ dfile' = File(TRUE, n, IF n = 0 THEN "none" ELSE "random")
       ELSE /\ n = dsize
            /\ dpc' = "written"
            /\ dfile' = File(TRUE, n, IF n = 0 THEN "none" ELSE "random")
    /\ UNCHANGED <<dsize, dlast, kmvars, vvars, cvars, pvars, nvars>>

(* file_path.unlink() inside the try block *)
DeleteUnlink(fault) ==
    /\ dpc = "written"
    /\ IF fault
       THEN dpc' = "except" /\ dfile' = dfile /\ dlast' = dlast
       ELSE dpc' = "idle" /\ dfile' = NoFile /\ dlast' = "returned"
    /\ UNCHANGED <<dsize, kmvars, vvars, cvars, pvars, nvars>>

(* The except clause: file_path.unlink() again, any exception passed over. *)
DeleteFallback(fault) ==
    /\ dpc = "except"
    /\ dpc' = "idle"
    /\ dfile' = IF fault THEN dfile ELSE NoFile
    /\ dlast' = "returned"
    /\ UNCHANGED <<dsize, kmvars, vvars, cvars, pvars, nvars>>

-----------------------------------------------------------------------------
(* TTLCache *)

CacheKeys == {"k1", "k2", "k3"}

(* The ttl arguments of set, in ticks of the clock. *)
Ttls == {0, 1, 2}

NoEntry == 0 - 1

(* The keys in self._cache *)
Stored(c) == {k \in CacheKeys : c[k] # NoEntry}

(* _cleanup_expired(): every entry with current_time >= expires is deleted. *)
cleanup_expired(c, now) ==
    [k \in CacheKeys |-> IF c[k] # NoEntry /\ now >= c[k] THEN NoEntry ELSE c[k]]

(* A faulty set: nothing is evicted. *)
EvictNothing(c) == {c}

(* del self._cache[min(keys, key=expires)]: the caches that can result.     *)
(* Among entries of one expiry min takes the first in the dict's order,     *)
(* which the model leaves open. *)
EvictOldest(c) ==
    {[c EXCEPT ![k] = NoEntry] : k \in {j \in Stored(c) : \A o \in Stored(c) : c[j] <= c[o]}}

CLast(op, key, result, evicted) ==
    [op |-> op, key |-> key, result |-> result, evicted |-> evicted]

NoCLast == CLast("none", "", "", FALSE)

(* TTLCache(max_size=n) *)
NewCache(n) ==
    /\ cmax = 0
    /\ cmax' = n
    /\ clast' = CLast("new", "", "", FALSE)
    /\ UNCHANGED <<cache, ctime, kmvars, vvars, dvars, pvars, nvars>>

(* set(key, value, ttl) *)
CacheSet(k, ttl) ==
    /\ cmax > 0
    /\ LET cleaned == IF Cardinality(Stored(cache)) >= cmax
                      THEN cleanup_expired(cache, ctime) ELSE cache
           full == Cardinality(Stored(cleaned)) >= cmax
       IN  /\ \E c \in (IF full THEN EvictOldest(cleaned) ELSE {cleaned}) :
                 cache' = [c EXCEPT ![k] = ctime + ttl]
           /\ clast' = CLast("set", k, "", full)
    /\ UNCHANGED <<cmax, ctime, kmvars, vvars, dvars, pvars, nvars>>

(* get(key): the value of an entry that has not expired; an expired entry   *)
(* is deleted. *)
CacheGet(k) ==
    /\ cmax > 0
    /\ IF cache[k] # NoEntry /\ ctime < cache[k]
       THEN cache' = cache /\ clast' = CLast("get", k, "hit", FALSE)
       ELSE cache' = [cache EXCEPT ![k] = NoEntry] /\ clast' = CLast("get", k, "miss", FALSE)
    /\ UNCHANGED <<cmax, ctime, kmvars, vvars, dvars, pvars, nvars>>

(* delete(key) *)
CacheDelete(k) ==
    /\ cmax > 0
    /\ cache' = [cache EXCEPT ![k] = NoEntry]
    /\ clast' = CLast("delete", k, IF cache[k] # NoEntry THEN "True" ELSE "False", FALSE)
    /\ UNCHANGED <<cmax, ctime, kmvars, vvars, dvars, pvars, nvars>>

(* clear() *)
CacheClear ==
    /\ cmax > 0
    /\ cache' = [k \in CacheKeys |-> NoEntry]
    /\ clast' = CLast("clear", "", "", FALSE)
    /\ UNCHANGED <<cmax, ctime, kmvars, vvars, dvars, pvars, nvars>>

(* Time passes. *)
CacheTick ==
    /\ ctime < MaxTime
    /\ ctime' = ctime + 1
    /\ clast' = CLast("tick", "", "", FALSE)
    /\ UNCHANGED <<cmax, cache, kmvars, vvars, dvars, pvars, nvars>>

-----------------------------------------------------------------------------
(* ConnectionPool, called from several threads. *)

Threads == {1, 2}

NoPool == 0 - 1

(* Where a thread is, and the connection it is putting. *)
At(at, c) == [at |-> at, conn |-> c]

Idle == At("idle", 0)

(* The call that returned: the connection returned or handed in, whether    *)
(* the factory was called, whether the pool kept the connection. *)
PLast(op, c, called, kept) == [op |-> op, conn |-> c, called |-> called, kept |-> kept]

NoPLast == PLast("none", 0, FALSE, FALSE)

(* Methods that do not take the lock. *)
CanEnterUnlocked(t) == TRUE

(* `with self._lock:` -- the thread goes on when nobody holds the lock. *)
CanEnter(t) == plock = 0

(* len(self._pool) < self.max_size *)
HasRoom(p, max) == Len(p) < max

(* ConnectionPool(factory, max_size=n) *)
NewPool(n) ==
    /\ pmax = NoPool
    /\ pmax' = n
    /\ plast' = PLast("new", 0, FALSE, FALSE)
    /\ UNCHANGED <<pool, made, plock, ppc, kmvars, vvars, dvars, cvars, nvars>>

(* A thread calls get(), put(connection) with a connection the factory has  *)
(* made, or clear(), and takes the lock. *)
PoolCall(t, op, c) ==
    /\ pmax # NoPool
    /\ ppc[t] = Idle
    /\ CanEnter(t)
    /\ IF op = "put" THEN c >= 1 /\ c <= made ELSE c = 0
    /\ plock' = t
    /\ ppc' = [ppc EXCEPT ![t] = At(op, c)]
    /\ UNCHANGED <<pmax, pool, made, plast, kmvars, vvars, dvars, cvars, nvars>>

(* get: `if self._pool:` *)
GetCheck(t) ==
    /\ ppc[t].at = "get"
    /\ ppc' = [ppc EXCEPT ![t] = At(IF pool # <<>> THEN "get_pop" ELSE "get_new", 0)]
    /\ UNCHANGED <<pmax, pool, made, plock, plast, kmvars, vvars, dvars, cvars, nvars>>

(* get: `return self._pool.pop()`; pop from an empty list raises IndexError. *)
GetPop(t) ==
    /\ ppc[t].at = "get_pop"
    /\ IF pool # <<>>
       THEN /\ pool' = SubSeq(pool, 1, Len(pool) - 1)
            /\ plast' = PLast("get", pool[Len(pool)], FALSE, FALSE)
       ELSE /\ pool' = pool
            /\ plast' = PLast("IndexError", 0, FALSE, FALSE)
    /\ ppc' = [ppc EXCEPT ![t] = Idle]
    /\ plock' = 0
    /\ UNCHANGED <<pmax, made, kmvars, vvars, dvars, cvars, nvars>>

(* get: `return self.factory()`.  The factory numbers its connections. *)
GetNew(t) ==
    /\ ppc[t].at = "get_new"
    /\ made < MaxConn
    /\ made' = made + 1
    /\ plast' = PLast("get", made + 1, TRUE, FALSE)
    /\ ppc' = [ppc EXCEPT ![t] = Idle]
    /\ plock' = 0
    /\ UNCHANGED <<pmax, pool, kmvars, vvars, dvars, cvars, nvars>>

(* put: `if len(self._pool) < self.max_size:`; a connection for which there *)
(* is no room is dropped. *)
PutCheck(t) ==
    /\ ppc[t].at = "put"
    /\ IF HasRoom(pool, pmax)
       THEN /\ ppc' = [ppc EXCEPT ![t] = At("put_append", ppc[t].conn)]
            /\ UNCHANGED <<plock, plast>>
       ELSE /\ ppc' = [ppc EXCEPT ![t] = Idle]
            /\ plock' = 0
            /\ plast' = PLast("put", ppc[t].conn, FALSE, FALSE)
    /\ UNCHANGED <<pmax, pool, made, kmvars, vvars, dvars, cvars, nvars>>

(* put: `self._pool.append(connection)` *)
PutAppend(t) ==
    /\ ppc[t].at = "put_append"
    /\ pool' = Append(pool, ppc[t].conn)
    /\ plast' = PLast("put", ppc[t].conn, FALSE, TRUE)
    /\ ppc' = [ppc EXCEPT ![t] = Idle]
    /\ plock' = 0
    /\ UNCHANGED <<pmax, made, kmvars, vvars, dvars, cvars, nvars>>

(* clear: `self._pool.clear()` *)
PoolClear(t) ==
    /\ ppc[t].at = "clear"
    /\ pool' = <<>>
    /\ plast' = PLast("clear", 0, FALSE, FALSE)
    /\ ppc' = [ppc EXCEPT ![t] = Idle]
    /\ plock' = 0
    /\ UNCHANGED <<pmax, made, kmvars, vvars, dvars, cvars, nvars>>

-----------------------------------------------------------------------------
(* safety.no_network: a context manager that rebinds socket.socket.connect. *)

NoPort == 0 - 1

(* A (host, port) tuple, or a string address, which has no port. *)
Address(host, port) == [host |-> host, port |-> port]

Addresses ==
    {Address("127.0.0.1", 11434), Address("127.0.0.1", 80),
     Address("93.184.216.34", 443), Address("localhost", NoPort),
     Address("", NoPort)}

(* _is_loopback_address, for the hosts above. *)
is_loopback_address(host) == host \in {"localhost", "localhost.localdomain", "127.0.0.1", "::1"}

(* The arguments of no_network after the defaults of the configuration      *)
(* (allow_loopback True, allowed_ports (11434,)) are filled in. *)
Policy(allow_loopback, allowed_ports) ==
    [allow_loopback |-> allow_loopback, allowed_ports |-> allowed_ports]

Policies == {Policy(l, ps) : l \in BOOLEAN, ps \in {{}, {11434}}}

(* `if allow_loopback and host and _is_loopback_address(host): if not       *)
(* allowed_ports or (port is not None and port in allowed_ports)` *)
Allows(p, a) ==
    /\ p.allow_loopback
    /\ a.host # ""
    /\ is_loopback_address(a.host)
    /\ (p.allowed_ports = {} \/ (a.port # NoPort /\ a.port \in p.allowed_ports))

(* What socket.socket.connect can be bound to. *)
Original == [kind |-> "original", policy |-> Policy(TRUE, {})]

Guarded == [kind |-> "guarded", policy |-> Policy(FALSE, {})]

Conditional(p) == [kind |-> "conditional", policy |-> p]

(* The outcome of calling what socket.socket.connect is bound to. *)
CallConnect(bound, a) ==
    CASE bound.kind = "original" -> "connected"
      [] bound.kind = "guarded" -> "NetworkAccessBlocked"
      [] OTHER -> IF Allows(bound.policy, a) THEN "connected" ELSE "NetworkAccessBlocked"

(* An entered context: its policy, and whether a context nested in it has   *)
(* been left since. *)
Guard(p, nested_left) == [policy |-> p, nested_left |-> nested_left]

NLast(a, outcome, inside, nested_left) ==
    [address |-> a, outcome |-> outcome, inside |-> inside, nested_left |-> nested_left]

NoNLast == NLast(Address("", NoPort), "none", <<>>, FALSE)

(* A finally clause that puts back what the context found on entry. *)
RestoredPrevious(gs) ==
    IF Len(gs) = 1 THEN Original
    ELSE LET p == gs[Len(gs) - 1].policy
         IN IF p.allow_loopback THEN Conditional(p) ELSE Guarded

(* `finally: socket.socket.connect = _original_connect` *)
Restored(gs) == Original

(* with no_network(allow_loopback, allowed_ports): up to the yield. *)
Enter(p) ==
    /\ Len(guards) < MaxDepth
    /\ guards' = Append(guards, Guard(p, FALSE))
    /\ connect' = IF p.allow_loopback THEN Conditional(p) ELSE Guarded
    /\ UNCHANGED <<nlast, kmvars, vvars, dvars, cvars, pvars>>

(* The body of the innermost context ends, normally or by an exception. *)
Exit ==
    /\ guards # <<>>
    /\ guards' = [i \in 1..(Len(guards) - 1) |->
                     IF i = Len(guards) - 1 THEN Guard(guards[i].policy, TRUE) ELSE guards[i]]
    /\ connect' = Restored(guards)
    /\ UNCHANGED <<nlast, kmvars, vvars, dvars, cvars, pvars>>

(* sock.connect(address), inside the contexts entered or outside any. *)
Connect(a) ==
    /\ nlast' = NLast(a, CallConnect(connect, a), [i \in 1..Len(guards) |-> guards[i].policy],
                      guards # <<>> /\ guards[Len(guards)].nested_left)
    /\ UNCHANGED <<connect, guards, kmvars, vvars, dvars, cvars, pvars>>

-----------------------------------------------------------------------------
(* InputValidator.validate_reflection_text *)

(* A text is a sequence of one-character strings. *)
MAX_REFLECTION_LENGTH == 5000

LowerLetters == <<"a","b","c","d","e","f","g","h","i","j","k","l","m",
                  "n","o","p","q","r","s","t","u","v","w","x","y","z">>

UpperLetters == <<"A","B","C","D","E","F","G","H","I","J","K","L","M",
                  "N","O","P","Q","R","S","T","U","V","W","X","Y","Z">>

Digits == {"0","1","2","3","4","5","6","7","8","9"}

(* ALLOWED_CHARACTERS, without its accented letters. *)
ALLOWED_CHARACTERS ==
    {LowerLetters[i] : i \in 1..26} \cup {UpperLetters[i] : i \in 1..26} \cup Digits
    \cup {" ", ".", ",", "!", "?", "-", "(", ")", "[", "]", "{", "}", ":", ";",
          "\"", "'", "\n", "\t", "_"}

(* The characters str.strip() removes, among the allowed ones. *)
Whitespace == {" ", "\n", "\t"}

UpperChar(c) ==
    IF \E i \in 1..26 : LowerLetters[i] = c
    THEN UpperLetters[CHOOSE i \in 1..26 : LowerLetters[i] = c]
    ELSE c

(* An uppercasing that changes nothing. *)
UpperNothing(t) == t

(* text.upper() *)
Upper(t) == [i \in 1..Len(t) |-> UpperChar(t[i])]

(* pattern in text *)
Contains(t, pat) ==
    \E i \in 0..(Len(t) - Len(pat)) : \A j \in 1..Len(pat) : t[i + j] = pat[j]

dangerous_patterns ==
    { <<"D","R","O","P">>, <<"D","E","L","E","T","E">>, <<"U","P","D","A","T","E">>,
      <<"I","N","S","E","R","T">>, <<"A","L","T","E","R">>, <<"U","N","I","O","N">>,
      <<"S","E","L","E","C","T">>, <<"S","C","R","I","P","T">>,
      <<"J","A","V","A","S","C","R","I","P","T">>,
      <<"<","s","c","r","i","p","t">>, <<"<","?","p","h","p">>, <<"<","%">>,
      <<"<","a","s","p">> }

RECURSIVE LStrip(_)
LStrip(t) ==
    IF t # <<>> /\ Head(t) \in Whitespace THEN LStrip(Tail(t)) ELSE t

RECURSIVE RStrip(_)
RStrip(t) ==
    IF t # <<>> /\ t[Len(t)] \in Whitespace THEN RStrip(SubSeq(t, 1, Len(t) - 1)) ELSE t

(* A validator that returns the text as given. *)
StripNothing(t) == t

(* text.strip() *)
Strip(t) == RStrip(LStrip(t))

(* A validator that accepts every text. *)
ValidateAccepts(t) == [status |-> "ok", text |-> Strip(t)]

(* validate_reflection_text(text): the rule that rejects it, or "ok" and    *)
(* the text it returns. *)
validate_reflection_text(t) ==
    IF t = <<>>
    THEN [status |-> "empty", text |-> <<>>]
    ELSE IF Len(t) > MAX_REFLECTION_LENGTH
    THEN [status |-> "too_long", text |-> <<>>]
    ELSE IF {t[i] : i \in 1..Len(t)} \ ALLOWED_CHARACTERS # {}
    THEN [status |-> "invalid_chars", text |-> <<>>]
    ELSE IF LET text_upper == Upper(t)
            IN  \E pat \in dangerous_patterns : Contains(text_upper, pat)
    THEN [status |-> "dangerous", text |-> <<>>]
    ELSE [status |-> "ok", text |-> Strip(t)]

-----------------------------------------------------------------------------
(* EncryptedVault *)

MaxId == 2

Handles == {1, 2}

(* The readings of CURRENT_TIMESTAMP: it stands still or moves on between   *)
(* two inserts. *)
Times == 1..(MaxId + 1)

(* The texts handed to add_reflection: the empty text, a word, the word     *)
(* after a space, a lone space, and a character outside the allow-list. *)
Texts == {<<>>, <<"a">>, <<" ", "a">>, <<" ">>, <<"#">>}

(* The keys stores are opened with: the keys of two vaults.  The first      *)
(* handle is opened with the first. *)
VaultKey(n) == PBKDF2("p", 0, n, ITERATIONS)

VaultKeys == {VaultKey(1), VaultKey(2)}

(* str.encode("utf-8") and bytes.decode("utf-8") *)
Utf8Encode(t) == [utf8 |-> t]

Utf8Decode(b) == b.utf8

(* Bytes that are no Fernet token, and a string that is no digest of any    *)
(* plaintext. *)
GarbageToken == [k |-> NoKey, pt |-> Utf8Encode(<<>>), iv |-> 0]

GarbageDigest == Digest(Utf8Encode(<<"#">>))

(* A row of the reflections table.  ct_changed and sum_changed are not      *)
(* columns: they record that the column was written to after the insert. *)
Row(id, ct, checksum, created, updated, ct_changed, sum_changed) ==
    [id |-> id, encrypted_text |-> ct, checksum |-> checksum,
     created_at |-> created, updated_at |-> updated,
     ct_changed |-> ct_changed, sum_changed |-> sum_changed]

(* A faulty lookup: some row, whatever its id. *)
RowOfAny(id) == CHOOSE r \in tbl : TRUE

(* SELECT ... FROM reflections WHERE id = ? *)
RowOf(id) == CHOOSE r \in tbl : r.id = id

HasRow(id) == \E r \in tbl : r.id = id

(* What a call returned: the key of the handle it was made on, the state    *)
(* the handle was in (was), and the outcome.  status is the exception       *)
(* raised, or "ok"; for delete_reflection it is the value returned.         *)
(* input/after_add: the call is a get of the id the add just before it, on  *)
(* a handle with the same key, returned, and that add's text argument.      *)
(* For a construction, input holds the db_path argument. *)
VLast(op, key, was, id, status, text, created, updated, rows, after_add, input) ==
    [op |-> op, key |-> key, was |-> was, id |-> id, status |-> status, text |-> text,
     created |-> created, updated |-> updated, rows |-> rows,
     after_add |-> after_add, input |-> input]

NoVLast == VLast("none", NoKey, "unopened", 0, "ok", <<>>, 0, 0, <<>>, FALSE, <<>>)

(* No key file, no manager holding a key; no database file, an empty table, *)
(* no store handle constructed. *)
Init ==
    /\ fs = [p \in Paths |-> Absent]
    /\ mk = [m \in Managers |-> NoKey]
    /\ msalt = [m \in Managers |-> 0]
    /\ pc = [m \in Managers |-> "idle"]
    /\ kd = [m \in Managers |-> Absent]
    /\ spw = [m \in Managers |-> NoPw]
    /\ rnd = 0
    /\ korigin = NoOrigin
    /\ last = NoLast
    /\ tbl = {}
    /\ seq = 0
    /\ clock = 1
    /\ vkey = [h \in Handles |-> NoKey]
    /\ conn = [h \in Handles |-> "unopened"]
    /\ dbfile = FALSE
    /\ vlast = NoVLast
    /\ dfile = NoFile
    /\ dpc = "idle"
    /\ dsize = 0
    /\ dlast = "none"
    /\ cmax = 0
    /\ cache = [k \in CacheKeys |-> NoEntry]
    /\ ctime = 1
    /\ clast = NoCLast
    /\ pmax = NoPool
    /\ pool = <<>>
    /\ made = 0
    /\ plock = 0
    /\ ppc = [t \in Threads |-> Idle]
    /\ plast = NoPLast
    /\ connect = Original
    /\ guards = <<>>
    /\ nlast = NoNLast

(* Keys EncryptedVault rejects: one of fewer than 16 bytes, and one long    *)
(* enough that Fernet() does not accept (not 32 url-safe base64 bytes). *)
ShortKey == [pw |-> "<short>", rnd |-> 0, salt |-> 0, it |-> 0]

MalformedKey == [pw |-> "<malformed>", rnd |-> 0, salt |-> 0, it |-> 0]

(* Database paths: the vault's file, the empty string, and a path in a      *)
(* directory that does not exist. *)
GoodPath == "vault.db"

EmptyPath == ""

NoDirPath == "missing/vault.db"

DbPaths == {GoodPath, EmptyPath, NoDirPath}

(* The plaintext of the constructor's self-test. *)
TestData == Utf8Encode(<<"test_encryption">>)

(* The exception raised in __init__ before self._connect() is reached, or   *)
(* "none": the checks of db_path and key, Fernet(key) and the self-test. *)
RaisedBeforeConnect(path, k) ==
    IF path = EmptyPath THEN "ValueError"            \* Database path cannot be empty
    ELSE IF k = NoKey \/ k = ShortKey THEN "ValueError"   \* Invalid encryption key
    ELSE IF k = MalformedKey THEN "ValueError"       \* raised by Fernet(key)
    ELSE IF ~DecryptOk(k, Encrypt(k, TestData, 0)) THEN "InvalidToken"
    ELSE IF Encrypt(k, TestData, 0).pt # TestData THEN "EncryptionError"
    ELSE "none"

(* The exception raised inside the try block of __init__, or "none". *)
RaisedByInit(path, k) ==
    IF RaisedBeforeConnect(path, k) # "none" THEN RaisedBeforeConnect(path, k)
    ELSE IF path = NoDirPath THEN "DatabaseError"    \* _connect: sqlite3.Error
    ELSE "none"

(* The except clause of __init__: what the caller sees for an exception     *)
(* raised inside the try block. *)
Wrapped(exc) ==
    IF exc \in {"DatabaseError", "EncryptionError"} THEN exc
    ELSE IF exc = "InvalidToken" THEN "EncryptionError"   \* a type of the cryptography package
    ELSE "DatabaseError"

(* A faulty construction: the connection is made before the key is looked   *)
(* at. *)
ConnectsFirst(path, k) == path = GoodPath

(* __init__ reaches sqlite3.connect, which creates the database file. *)
Connects(path, k) == RaisedBeforeConnect(path, k) = "none" /\ path = GoodPath

(* EncryptedVault(db_path, key).  With a well-formed key the self-test      *)
(* passes, the connection is opened and the table created if missing.  The  *)
(* first handle takes the first key, and is constructed first. *)
Open(h, path, k) ==
    /\ conn[h] = "unopened"
    /\ k \in VaultKeys => (h = 1 => k = VaultKey(1)) /\ (h # 1 => vkey[1] # NoKey)
    /\ IF RaisedByInit(path, k) = "none"
       THEN /\ vkey' = [vkey EXCEPT ![h] = k]
            /\ conn' = [conn EXCEPT ![h] = "open"]
            /\ vlast' = VLast("open", k, "unopened", 0, "ok", <<>>, 0, 0, <<>>, FALSE, <<path>>)
       ELSE /\ vlast' = VLast("open", k, "unopened", 0, Wrapped(RaisedByInit(path, k)),
                              <<>>, 0, 0, <<>>, FALSE, <<path>>)
            /\ UNCHANGED <<vkey, conn>>
    /\ dbfile' = (dbfile \/ Connects(path, k))
    /\ UNCHANGED <<tbl, seq, clock, kmvars, xvars>>

(* What `with self.conn:` raises when self.conn is None: TypeError from      *)
(* Python 3.11 on, AttributeError before. *)
WithNoneErrors == {"TypeError", "AttributeError"}

(* A table that hands out the largest rowid in use plus one. *)
NextIdRowMax(rows, s) ==
    IF rows = {} THEN 1 ELSE (CHOOSE r \in rows : \A o \in rows : o.id <= r.id).id + 1

(* id INTEGER PRIMARY KEY AUTOINCREMENT: one more than the largest id ever   *)
(* given out, which sqlite_sequence keeps. *)
NextId(rows, s) == s + 1

(* add_reflection(text), called when CURRENT_TIMESTAMP reads `now`.  The IV *)
(* of the new token is fresh: the model uses the row's number. *)
Add(h, t, now) ==
    /\ conn[h] # "unopened"
    /\ now \in {clock, clock + 1}
    /\ LET v == validate_reflection_text(t)
           id == NextId(tbl, seq)
       IN  IF v.status # "ok"
           THEN /\ now = clock
                /\ vlast' = VLast("add", vkey[h], conn[h], 0, "ValidationError", <<>>, 0, 0, <<>>, FALSE, t)
                /\ UNCHANGED <<tbl, seq>>
           ELSE IF conn[h] = "closed"
           THEN /\ now = clock
                /\ \E e \in WithNoneErrors :
                      vlast' = VLast("add", vkey[h], conn[h], 0, e, <<>>, 0, 0, <<>>, FALSE, t)
                /\ UNCHANGED <<tbl, seq>>
           ELSE /\ id <= MaxId
                /\ tbl' = tbl \cup
                     {Row(id, Encrypt(vkey[h], Utf8Encode(v.text), id),
                          Digest(Utf8Encode(v.text)), now, now, FALSE, FALSE)}
                /\ seq' = id
                /\ vlast' = VLast("add", vkey[h], conn[h], id, "ok", <<>>, 0, 0, <<>>, FALSE, t)
    /\ clock' = now
    /\ UNCHANGED <<vkey, conn, dbfile, kmvars, xvars>>

(* A faulty read: the checksum is not compared. *)
RowVerifiedNoChecksum(k, r) == DecryptOk(k, r.encrypted_text)

(* The decryption and integrity check get_reflection and                    *)
(* get_all_reflections both make on a row. *)
RowVerified(k, r) ==
    /\ DecryptOk(k, r.encrypted_text)
    /\ Digest(r.encrypted_text.pt) = r.checksum

(* get_reflection(reflection_id) *)
Get(h, id) ==
    /\ conn[h] # "unopened"
    /\ LET after == /\ vlast.op = "add" /\ vlast.status = "ok"
                    /\ vlast.id = id /\ vlast.key = vkey[h]
           input == IF after THEN vlast.input ELSE <<>>
       IN  IF id <= 0
           THEN vlast' = VLast("get", vkey[h], conn[h], id, "ValidationError", <<>>, 0, 0, <<>>, after, input)
           ELSE IF conn[h] = "closed"
           THEN vlast' = VLast("get", vkey[h], conn[h], id, "AttributeError", <<>>, 0, 0, <<>>, after, input)
           ELSE IF ~HasRow(id)
           THEN vlast' = VLast("get", vkey[h], conn[h], id, "not_found", <<>>, 0, 0, <<>>, after, input)
           ELSE IF ~RowVerified(vkey[h], RowOf(id))
           THEN vlast' = VLast("get", vkey[h], conn[h], id, "EncryptionError", <<>>, 0, 0, <<>>, after, input)
           ELSE vlast' = VLast("get", vkey[h], conn[h], id, "ok",
                               Utf8Decode(RowOf(id).encrypted_text.pt),
                               RowOf(id).created_at, RowOf(id).updated_at,
                               <<>>, after, input)
    /\ UNCHANGED <<tbl, seq, clock, vkey, conn, dbfile, kmvars, xvars>>

(* SELECT ... ORDER BY created_at DESC as standard SQL defines it: rows of   *)
(* one created_at in any order. *)
OrdersAnyTie(rows) ==
    {s \in [1..Cardinality(rows) -> rows] :
        /\ \A i, j \in 1..Cardinality(rows) : i # j => s[i] # s[j]
        /\ \A i, j \in 1..Cardinality(rows) : i < j => s[i].created_at >= s[j].created_at}

(* The order SELECT ... ORDER BY created_at DESC returns the rows in.       *)
(* SQLite answers the query by walking idx_reflections_timestamp backwards; *)
(* the index holds (created_at, rowid), so rows of one created_at come out  *)
(* with the larger id first. *)
Orders(rows) ==
    {s \in [1..Cardinality(rows) -> rows] :
        /\ \A i, j \in 1..Cardinality(rows) : i # j => s[i] # s[j]
        /\ \A i, j \in 1..Cardinality(rows) : i < j =>
              \/ s[i].created_at > s[j].created_at
              \/ s[i].created_at = s[j].created_at /\ s[i].id > s[j].id}

RECURSIVE DecryptAll(_, _)
(* The loop of get_all_reflections over the fetched rows: a row that does   *)
(* not decrypt or does not match its checksum is skipped. *)
DecryptAll(k, s) ==
    IF s = <<>> THEN <<>>
    ELSE IF RowVerified(k, Head(s))
    THEN <<[id |-> Head(s).id, text |-> Utf8Decode(Head(s).encrypted_text.pt),
            created |-> Head(s).created_at, updated |-> Head(s).updated_at]>>
         \o DecryptAll(k, Tail(s))
    ELSE DecryptAll(k, Tail(s))

(* get_all_reflections() *)
GetAll(h) ==
    /\ conn[h] # "unopened"
    /\ IF conn[h] = "closed"
       THEN vlast' = VLast("get_all", vkey[h], conn[h], 0, "AttributeError", <<>>, 0, 0, <<>>, FALSE, <<>>)
       ELSE \E s \in Orders(tbl) :
              vlast' = VLast("get_all", vkey[h], conn[h], 0, "ok", <<>>, 0, 0,
                             DecryptAll(vkey[h], s), FALSE, <<>>)
    /\ UNCHANGED <<tbl, seq, clock, vkey, conn, dbfile, kmvars, xvars>>

(* A faulty delete: one whose DELETE is never committed. *)
DeleteKeepsRow(h, id) ==
    /\ conn[h] # "unopened"
    /\ vlast' = VLast("delete", vkey[h], conn[h], id,
                      IF id <= 0 THEN "ValidationError"
                      ELSE IF conn[h] = "closed" THEN "AttributeError"
                      ELSE IF HasRow(id) THEN "True" ELSE "False",
                      <<>>, 0, 0, <<>>, FALSE, <<>>)
    /\ UNCHANGED <<tbl, seq, clock, vkey, conn, dbfile, kmvars, xvars>>

(* delete_reflection(reflection_id): True when a row was deleted. *)
Delete(h, id) ==
    /\ conn[h] # "unopened"
    /\ IF id <= 0
       THEN /\ vlast' = VLast("delete", vkey[h], conn[h], id, "ValidationError", <<>>, 0, 0, <<>>, FALSE, <<>>)
            /\ tbl' = tbl
       ELSE IF conn[h] = "closed"
       THEN /\ \E e \in WithNoneErrors :
                  vlast' = VLast("delete", vkey[h], conn[h], id, e, <<>>, 0, 0, <<>>, FALSE, <<>>)
            /\ tbl' = tbl
       ELSE /\ tbl' = {r \in tbl : r.id # id}
            /\ vlast' = VLast("delete", vkey[h], conn[h], id,
                              IF HasRow(id) THEN "True" ELSE "False",
                              <<>>, 0, 0, <<>>, FALSE, <<>>)
    /\ UNCHANGED <<seq, clock, vkey, conn, dbfile, kmvars, xvars>>

(* A faulty erase: one that overwrites the rows and leaves them in place. *)
EraseAllOverwrites(h) ==
    /\ conn[h] # "unopened"
    /\ tbl' = {[r EXCEPT !.encrypted_text = Encrypt(vkey[h], <<>>, r.id), !.updated_at = clock] : r \in tbl}
    /\ vlast' = VLast("erase_all", vkey[h], conn[h], 0, "ok", <<>>, 0, 0, <<>>, FALSE, <<>>)
    /\ UNCHANGED <<seq, clock, vkey, conn, dbfile, kmvars, xvars>>

(* A faulty erase: one that opens a connection of its own when the handle   *)
(* has none. *)
EraseAllReconnects(h) ==
    /\ conn[h] # "unopened"
    /\ tbl' = {}
    /\ vlast' = VLast("erase_all", vkey[h], conn[h], 0, "ok", <<>>, 0, 0, <<>>, FALSE, <<>>)
    /\ UNCHANGED <<seq, clock, vkey, conn, dbfile, kmvars, xvars>>

(* secure_erase_all(): DELETE FROM reflections. *)
EraseAll(h) ==
    /\ conn[h] # "unopened"
    /\ IF conn[h] = "closed"
       THEN /\ vlast' = VLast("erase_all", vkey[h], conn[h], 0, "AttributeError", <<>>, 0, 0, <<>>, FALSE, <<>>)
            /\ tbl' = tbl
       ELSE /\ tbl' = {}
            /\ vlast' = VLast("erase_all", vkey[h], conn[h], 0, "ok", <<>>, 0, 0, <<>>, FALSE, <<>>)
    /\ UNCHANGED <<seq, clock, vkey, conn, dbfile, kmvars, xvars>>

(* A close that leaves self.conn set. *)
CloseKeepsConn(h) ==
    /\ conn[h] # "unopened"
    /\ vlast' = VLast("close", vkey[h], conn[h], 0, "ok", <<>>, 0, 0, <<>>, FALSE, <<>>)
    /\ UNCHANGED <<tbl, seq, clock, vkey, conn, dbfile, kmvars, xvars>>

(* close(): closes the connection if there is one and sets self.conn to     *)
(* None. *)
Close(h) ==
    /\ conn[h] # "unopened"
    /\ conn' = [conn EXCEPT ![h] = "closed"]
    /\ vlast' = VLast("close", vkey[h], conn[h], 0, "ok", <<>>, 0, 0, <<>>, FALSE, <<>>)
    /\ UNCHANGED <<tbl, seq, clock, vkey, dbfile, kmvars, xvars>>

(* What get_stats returns; None is 0, and a file's size is 1 when the file   *)
(* exists. *)
StatsOf(count, oldest, newest, size) ==
    [total_reflections |-> count, oldest_reflection |-> oldest,
     newest_reflection |-> newest, database_size |-> size]

ZeroStats == StatsOf(0, 0, 0, 0)

(* What can go wrong inside get_stats on an open handle: the query raises   *)
(* sqlite3.Error, or the file-size lookup raises OSError. *)
StatsFaults == {"none", "sqlite3.Error", "OSError"}

(* The aggregate query of get_stats: the count of the rows, the least and   *)
(* the greatest created_at. *)
Aggregate(rows) ==
    IF rows = {} THEN <<0, 0, 0>>
    ELSE <<Cardinality(rows),
           (CHOOSE r \in rows : \A o \in rows : r.created_at <= o.created_at).created_at,
           (CHOOSE r \in rows : \A o \in rows : r.created_at >= o.created_at).created_at>>

(* get_stats(), with the failure that happens inside it, if any. *)
Stats(h, fault) ==
    /\ conn[h] # "unopened"
    /\ IF conn[h] = "closed"
       THEN /\ fault = "none"
            /\ vlast' = VLast("stats", vkey[h], conn[h], 0, "AttributeError", <<>>, 0, 0, <<>>, FALSE, <<>>)
       ELSE IF fault # "none"
       THEN vlast' = VLast("stats", vkey[h], conn[h], 0, "ok", <<>>, 0, 0, <<ZeroStats>>, FALSE, <<fault>>)
       ELSE vlast' = VLast("stats", vkey[h], conn[h], 0, "ok", <<>>, 0, 0,
                           <<StatsOf(Aggregate(tbl)[1], Aggregate(tbl)[2], Aggregate(tbl)[3],
                                     IF dbfile THEN 1 ELSE 0)>>, FALSE, <<fault>>)
    /\ UNCHANGED <<tbl, seq, clock, vkey, conn, dbfile, kmvars, xvars>>

(* A change made to the database file by something other than this         *)
(* program; the model makes one such change. *)
Tamper(r, new) ==
    /\ \A o \in tbl : ~o.ct_changed /\ ~o.sum_changed
    /\ tbl' = (tbl \ {r}) \cup {new}
    /\ vlast' = NoVLast
    /\ UNCHANGED <<seq, clock, vkey, conn, dbfile, kmvars, xvars>>

(* Bytes of a stored ciphertext are overwritten. *)
CorruptCiphertext ==
    \E r \in tbl :
        Tamper(r, [r EXCEPT !.encrypted_text = GarbageToken, !.ct_changed = TRUE])

(* Bytes of a stored checksum are overwritten. *)
CorruptChecksum ==
    \E r \in tbl :
        Tamper(r, [r EXCEPT !.checksum = GarbageDigest, !.sum_changed = TRUE])

(* The ciphertext of another row is written over a row's ciphertext. *)
CopyCiphertext ==
    \E r, o \in tbl :
        /\ o.id # r.id
        /\ Tamper(r, [r EXCEPT !.encrypted_text = o.encrypted_text, !.ct_changed = TRUE])

(* The ciphertext and the checksum of another row are written over a row's. *)
CopyRow ==
    \E r, o \in tbl :
        /\ o.id # r.id
        /\ o.checksum # r.checksum
        /\ Tamper(r, [r EXCEPT !.encrypted_text = o.encrypted_text, !.ct_changed = TRUE,
                               !.checksum = o.checksum, !.sum_changed = TRUE])

VNext ==
    \/ \E h \in Handles, k \in VaultKeys : Open(h, GoodPath, k)
    \/ \E h \in Handles, t \in Texts, now \in Times : Add(h, t, now)
    \/ \E h \in Handles, id \in 0..MaxId : Get(h, id)
    \/ \E h \in Handles : GetAll(h)
    \/ CorruptCiphertext
    \/ CorruptChecksum
    \/ CopyCiphertext
    \/ CopyRow

(* The record store: handles on one database file, and its tamperers. *)
SpecVault == Init /\ [][VNext]_vars

(* The texts and keys of the store's life cycle: a word and a text the      *)
(* validator rejects; the vault's key and the two keys no store accepts. *)
StoreTexts == {<<"a">>, <<"#">>, <<>>}

StoreKeys == {VaultKey(1), ShortKey, MalformedKey}

StoreNext ==
    \/ \E h \in Handles, path \in DbPaths, k \in StoreKeys : Open(h, path, k)
    \/ \E h \in Handles, t \in StoreTexts, now \in Times : Add(h, t, now)
    \/ \E h \in Handles, id \in 0..MaxId : Get(h, id)
    \/ \E h \in Handles : GetAll(h)
    \/ \E h \in Handles, id \in 0..MaxId : Delete(h, id)
    \/ \E h \in Handles : EraseAll(h)
    \/ \E h \in Handles : Close(h)
    \/ \E h \in Handles, fault \in StatsFaults : Stats(h, fault)

DeleteNext ==
    \/ \E n \in 0..MaxSize : CreateFile(n)
    \/ \E fault \in BOOLEAN : DeleteEnter(fault)
    \/ \E fault \in BOOLEAN : DeleteStat(fault)
    \/ \E fault \in BOOLEAN : DeleteOpen(fault)
    \/ \E fault \in BOOLEAN, n \in 0..MaxSize : DeleteWrite(fault, n)
    \/ \E fault \in BOOLEAN : DeleteUnlink(fault)
    \/ \E fault \in BOOLEAN : DeleteFallback(fault)

(* secure_delete_file step by step, with the failures of each step. *)
SpecDelete == Init /\ [][DeleteNext]_vars

CacheNext ==
    \/ \E n \in 1..MaxCacheSize : NewCache(n)
    \/ \E k \in CacheKeys, ttl \in Ttls : CacheSet(k, ttl)
    \/ \E k \in CacheKeys : CacheGet(k)
    \/ \E k \in CacheKeys : CacheDelete(k)
    \/ CacheClear
    \/ CacheTick

(* A TTLCache under any sequence of its calls, as time passes. *)
SpecCache == Init /\ [][CacheNext]_vars

PoolNext ==
    \/ \E n \in 0..MaxPoolSize : NewPool(n)
    \/ \E t \in Threads, op \in {"get", "put", "clear"}, c \in 0..MaxConn : PoolCall(t, op, c)
    \/ \E t \in Threads : GetCheck(t)
    \/ \E t \in Threads : GetPop(t)
    \/ \E t \in Threads : GetNew(t)
    \/ \E t \in Threads : PutCheck(t)
    \/ \E t \in Threads : PutAppend(t)
    \/ \E t \in Threads : PoolClear(t)

(* A ConnectionPool under the calls of two threads, statement by statement. *)
SpecPool == Init /\ [][PoolNext]_vars

NetNext ==
    \/ \E p \in Policies : Enter(p)
    \/ Exit
    \/ \E a \in Addresses : Connect(a)

(* Contexts entered, nested and left, with connects in between. *)
SpecNet == Init /\ [][NetNext]_vars

(* Texts handed to the validator: a blacklisted word or a near miss of one, *)
(* in several spellings, with and without text around it; and texts at and  *)
(* past the maximum length. *)
TextHeads == {<<>>, <<" ">>, <<"a">>, <<"#">>}

TextWords ==
    { <<>>, <<"d","r","o","p">>, <<"D","R","O","P">>, <<"d","R","o","P">>, <<"d","r","o">>,
      <<"u","n","i","o","n">>, <<"S","e","L","e","C","t">>, <<"s","c","r","i","p","t">>,
      <<"<","s","c","r","i","p","t">>, <<"<","%">>, <<"<","A","S","P">>,
      <<"a","l","t","e","r","s">>, <<"D","e","l","e","t","e">>, <<"o","k",".">> }

TextTails == {<<>>, <<"x">>}

LongText(n, c, w) == [i \in 1..n |-> IF i <= Len(w) THEN w[i] ELSE c]

ValTexts ==
    {h \o w \o e : h \in TextHeads, w \in TextWords, e \in TextTails}
    \cup {LongText(MAX_REFLECTION_LENGTH, "a", <<>>),
          LongText(MAX_REFLECTION_LENGTH + 1, "a", <<>>),
          LongText(MAX_REFLECTION_LENGTH + 1, "#", <<"d","r","o","p">>)}

(* InputValidator.validate_reflection_text(text), called on its own. *)
Validate(t) ==
    /\ LET v == validate_reflection_text(t)
       IN  vlast' = VLast("validate", NoKey, "unopened", 0, v.status, v.text,
                          0, 0, <<>>, FALSE, t)
    /\ UNCHANGED <<tbl, seq, clock, vkey, conn, dbfile, kmvars, xvars>>

ValidateNext ==
    \/ \E t \in ValTexts : Validate(t)

(* The validator as a function of its input. *)
SpecValidate == Init /\ [][ValidateNext]_vars

(* The text each handle adds when several handles share the database. *)
HandleText(h) == IF h = 1 THEN <<"a">> ELSE <<"b">>

SharedNext ==
    \/ \E h \in Handles : Open(h, GoodPath, VaultKey(1))
    \/ \E h \in Handles, now \in Times : Add(h, HandleText(h), now)
    \/ \E h \in Handles, id \in 1..MaxId : Get(h, id)
    \/ \E h \in Handles : GetAll(h)
    \/ \E h \in Handles : Close(h)

(* Several handles opened on one database file with one key, each adding    *)
(* its own text, in any interleaving. *)
SpecShared == Init /\ [][SharedNext]_vars

(* The life of a store: construction, the record operations, close. *)
SpecStore == Init /\ [][StoreNext]_vars

-----------------------------------------------------------------------------
KMNext ==
    \/ \E m \in Managers : NewManager(m)
    \/ \E m \in Managers, pw \in WritePasswords : Generate(m, pw)
    \/ \E m \in Managers, pw \in WritePasswords : SaveNoKey(m, pw)
    \/ \E m \in Managers, pw \in WritePasswords : Save(m, pw)
    \/ \E m \in Managers, pw \in Passwords : Load(m, pw)
    \/ \E m \in Managers, pw \in WritePasswords : Rotate(m, pw)
    \/ PutLegacy
    \/ PutPolyglot
    \/ TamperHash
    \/ TamperMasterKey
    \/ DropVersion
    \/ RemoveFile

(* The key manager, one call at a time. *)
SpecKM == Init /\ [][KMNext]_vars

LoadNext ==
    \/ \E m \in Managers, pw \in WritePasswords : Generate(m, pw)
    \/ \E m \in Managers, pw \in WritePasswords : Save(m, pw)
    \/ \E m \in Managers, pw \in Passwords : Load(m, pw)
    \/ \E c \in {GarbageFile, BinaryFile, JsonListFile} : PutUnreadable(c)
    \/ \E f \in {"salt", "key_hash", "iterations", "encrypted_key", "master_key"} : DropField(f)
    \/ BreakSalt
    \/ BreakEncryptedKey
    \/ BreakIterations
    \/ RemoveFile

(* load_master_key on every kind of key file. *)
SpecLoad == Init /\ [][LoadNext]_vars

IterNext ==
    \/ \E m \in Managers, pw \in WritePasswords : Generate(m, pw)
    \/ \E m \in Managers, pw \in WritePasswords : Save(m, pw)
    \/ \E m \in Managers, pw \in Passwords : Load(m, pw)
    \/ \E it \in BuildIterations, pw \in {"p", "q"} : SaveOfBuild(it, pw)

(* Key files written by this build and by builds with another work factor,  *)
(* loaded by this build. *)
SpecIter == Init /\ [][IterNext]_vars

RotateNext ==
    \/ \E m \in Managers, pw \in WritePasswords : Generate(m, pw)
    \/ \E m \in Managers, pw \in WritePasswords : Save(m, pw)
    \/ \E m \in Managers, pw \in Passwords : Load(m, pw)
    \/ \E m \in Managers, pw \in WritePasswords : Rotate(m, pw)
    \/ \E m \in Managers, pw \in WritePasswords, fault \in SaveFaults : RotateSaveFails(m, pw, fault)

(* Rotations that succeed and rotations whose save fails. *)
SpecRotate == Init /\ [][RotateNext]_vars

SaveNext ==
    \/ \E m \in Managers, pw \in WritePasswords : Generate(m, pw)
    \/ \E m \in Managers, pw \in WritePasswords : SaveBegin(m, pw)
    \/ \E m \in Managers : SaveWritePart(m)
    \/ \E m \in Managers : SaveWrite(m)
    \/ \E m \in Managers : SaveReplace(m)
    \/ \E m \in Managers : Crash(m)

(* save_master_key step by step: managers saving at once, and crashing. *)
SpecSave == Init /\ [][SaveNext]_vars

-----------------------------------------------------------------------------
(* Properties of the key manager *)

SavedFields(wrapped) ==
    {"version", "salt", "key_hash", "iterations",
     IF wrapped THEN "encrypted_key" ELSE "master_key"}

(* A complete version-1 record as save builds it. *)
IsCompleteRecord(c) ==
    /\ c.kind = "json"
    /\ c.has \in {SavedFields(TRUE), SavedFields(FALSE)}
    /\ c.version = 1
    /\ c.iterations = ITERATIONS
    /\ c.key_hash = Digest(PersistedKey(c))

(* The content holds key k unwrapped. *)
HoldsRawKey(c, k) ==
    \/ "master_key" \in c.has /\ c.master_key = k
    \/ c.bytes_key = k

(* C4: a load with password p of the record that save(p) wrote -- p a        *)
(* password, the empty string or None -- succeeds and returns the very key  *)
(* that was saved. *)
C4_KeyRoundTrip ==
    (last.op = "load" /\ last.origin.by = "save" /\ last.pw = last.origin.spw)
        => (last.status = "ok" /\ last.key = last.origin.key)

C4_Witness ==
    /\ last.op = "load" /\ last.origin.by = "save"
    /\ last.pw = "p" /\ last.origin.spw = "p" /\ last.origin.key.pw = "p"
    /\ last.status = "ok" /\ last.key = last.origin.key
    /\ \E m \in Managers : mk[m] = last.key /\ mk[m] # NoKey
    /\ \E m \in Managers : mk[m] = NoKey

C4_WitnessNoPassword ==
    /\ last.op = "load" /\ last.origin.by = "save"
    /\ last.pw = NoPw /\ last.origin.spw = NoPw
    /\ last.status = "ok" /\ last.key = last.origin.key

(* C5: after save(p) with a non-empty password p, a load with any other     *)
(* password, or with none, raises InvalidKeyError and returns no key; a     *)
(* load that returns a key was given p. *)
C5_WrongPassword ==
    (last.op = "load" /\ last.origin.by = "save" /\ Truthy(last.origin.spw))
        => /\ last.pw # last.origin.spw
                => (last.status = "InvalidKeyError" /\ last.key = NoKey)
           /\ last.status = "ok" => last.pw = last.origin.spw

C5_Witness ==
    /\ last.op = "load" /\ last.origin.by = "save"
    /\ last.origin.spw = "p" /\ last.pw = "q"
    /\ last.status = "InvalidKeyError"

C5_WitnessNoPassword ==
    /\ last.op = "load" /\ last.origin.by = "save"
    /\ last.origin.spw = "p" /\ last.pw = NoPw
    /\ last.status = "InvalidKeyError"

(* C6: a key that load returns from a version-1 record has a digest equal   *)
(* to the record's key_hash; a record whose key does not hash to key_hash   *)
(* makes load raise InvalidKeyError and return nothing, whatever the        *)
(* password, also when the unwrap succeeded. *)
C6_KeyHashChecked ==
    (last.op = "load" /\ fs[KeyPath].kind = "json" /\ fs[KeyPath].version = 1)
        => /\ last.status = "ok" => Digest(last.key) = fs[KeyPath].key_hash
           /\ Digest(PersistedKey(fs[KeyPath])) # fs[KeyPath].key_hash
                => (last.status = "InvalidKeyError" /\ last.key = NoKey)

C6_Witness ==
    /\ last.op = "load" /\ fs[KeyPath].kind = "json" /\ fs[KeyPath].version = 1
    /\ "encrypted_key" \in fs[KeyPath].has
    /\ Truthy(last.pw)
    /\ DecryptOk(PBKDF2(last.pw, 0, fs[KeyPath].salt, fs[KeyPath].iterations \div 10),
                 fs[KeyPath].encrypted_key)
    /\ Digest(fs[KeyPath].encrypted_key.pt) # fs[KeyPath].key_hash
    /\ last.status = "InvalidKeyError"

(* C7: load on a key file without a version field whose whole content is a  *)
(* well-formed raw key returns that content as the key. *)
C7_LegacyKeyLoads ==
    (last.op = "load" /\ fs[KeyPath].kind # "absent"
        /\ "version" \notin fs[KeyPath].has /\ fs[KeyPath].bytes_key # NoKey)
        => (Loaded(last) /\ last.key = fs[KeyPath].bytes_key)

(* The one shape of file for which the legacy branch is reached and         *)
(* succeeds: JSON text that also reads as a key. *)
C7_PolyglotLoaded ==
    /\ last.op = "load" /\ fs[KeyPath] = PolyglotFile
    /\ last.status = "ok_legacy" /\ last.key = PolyglotKey

(* C8: every step that changes the file at the key path -- with managers    *)
(* saving at once and crashing anywhere -- replaces it by the complete      *)
(* record a manager built; the key file is never empty or cut off. *)
KeyFileStep ==
    fs'[KeyPath] # fs[KeyPath]
        => /\ IsCompleteRecord(fs'[KeyPath])
           /\ \E m \in Managers : pc[m] = "written" /\ fs'[KeyPath] = kd[m]

C8_AtomicKeyFile == [][KeyFileStep]_vars

C8_Witness ==
    /\ last.op = "crash"
    /\ IsCompleteRecord(fs[KeyPath])
    /\ \E m \in Managers : pc[m] = "created" /\ fs[TmpPath(m)].kind = "partial"
                              /\ fs[TmpPath(m)].has # {}

(* The shape of what save writes, given the set of password arguments that  *)
(* count as "a password was given". *)
RecordShape(given) ==
    /\ korigin.by = "save"
        => /\ fs[KeyPath].has = SavedFields(korigin.spw \in given)
           /\ korigin.spw \in given => ~HoldsRawKey(fs[KeyPath], korigin.key)
    /\ \A m \in Managers :
          (pc[m] # "idle" /\ spw[m] \in given) => ~HoldsRawKey(fs[TmpPath(m)], mk[m])

(* C9 as stated: any password argument other than None is a password given. *)
C9_AsStated == RecordShape(Passwords \ {NoPw})

(* C9: every record save writes holds exactly one of encrypted_key and      *)
(* master_key: encrypted_key when save was given a non-empty password,      *)
(* master_key otherwise (None or the empty string); with a non-empty        *)
(* password neither the key file nor the temporary file ever holds the      *)
(* unwrapped master key. *)
C9_ExactlyOneKeyField == RecordShape({pw \in Passwords : Truthy(pw)})

C9_Witness ==
    /\ korigin.by = "save" /\ korigin.spw = "p"
    /\ "encrypted_key" \in fs[KeyPath].has
    /\ \E m \in Managers : pc[m] = "written" /\ spw[m] = "p"
                              /\ "encrypted_key" \in fs[TmpPath(m)].has
    /\ \E m \in Managers : pc[m] = "created" /\ spw[m] = NoPw
                              /\ "master_key" \in fs[TmpPath(m)].has

(* C10: right after rotate(p') returns k', the key file holds the record of *)
(* k', load(p') yields k', k' is not the key the file held before, and no   *)
(* password loads that earlier key from the file. *)
C10_RotateReplaces ==
    last.op = "rotate"
        => /\ IsCompleteRecord(fs[KeyPath])
           /\ PersistedKey(fs[KeyPath]) = last.key
           /\ load_master_key(fs[KeyPath], last.pw) = Outcome("ok", last.key, fs[KeyPath].salt)
           /\ last.key # last.prev
           /\ \A pw \in Passwords :
                 Loaded(load_master_key(fs[KeyPath], pw))
                    => load_master_key(fs[KeyPath], pw).key # last.prev

C10_Witness ==
    /\ last.op = "rotate"
    /\ last.prev # NoKey
    /\ last.prev.pw = "p" /\ last.key.pw = "p"
    /\ last.origin.by = "save" /\ last.origin.spw = "p" /\ last.pw = "p"

-----------------------------------------------------------------------------
(* Properties of the record store *)

(* The row's ciphertext decrypts under k and the digest of the plaintext is *)
(* the row's checksum. *)
Intact(k, r) ==
    /\ r.encrypted_text # NoToken
    /\ r.encrypted_text.k = k
    /\ Digest(r.encrypted_text.pt) = r.checksum

(* C1, first half: get(id) returns a text only if the stored ciphertext     *)
(* decrypts under the store's own key and the digest of the plaintext is    *)
(* the stored checksum. *)
C1_ReturnsOnlyVerified ==
    (vlast.op = "get" /\ vlast.status = "ok") =>
        /\ HasRow(vlast.id)
        /\ Intact(vlast.key, RowOf(vlast.id))
        /\ vlast.text = Utf8Decode(RowOf(vlast.id).encrypted_text.pt)

(* C1: get(id) returns a text only if the stored ciphertext decrypts under  *)
(* the store's own key and the digest of the plaintext equals the stored    *)
(* checksum; and if the stored ciphertext or the stored checksum was        *)
(* changed after the write, or the row was written under a different key,   *)
(* get(id) raises EncryptionError and returns no text. *)
C1_TamperDetected ==
    (vlast.op = "get" /\ vlast.id > 0 /\ HasRow(vlast.id)) =>
        /\ vlast.status = "ok" => Intact(vlast.key, RowOf(vlast.id))
        /\ ( \/ RowOf(vlast.id).ct_changed
             \/ RowOf(vlast.id).sum_changed
             \/ RowOf(vlast.id).encrypted_text.k # vlast.key )
           => (vlast.status = "EncryptionError" /\ vlast.text = <<>>)

(* The get that shows it: the row's ciphertext and checksum were replaced   *)
(* by another row's, and get returns the other row's text. *)
C1_CopiedRowReturned ==
    /\ vlast.op = "get" /\ vlast.status = "ok"
    /\ HasRow(vlast.id)
    /\ RowOf(vlast.id).ct_changed /\ RowOf(vlast.id).sum_changed

(* s is t without its leading and trailing whitespace. *)
IsStripOf(s, t) ==
    \E i \in 1..(Len(t) + 1), j \in 0..Len(t) :
        /\ s = SubSeq(t, i, j)
        /\ \A n \in 1..(i - 1) : t[n] \in Whitespace
        /\ \A n \in (j + 1)..Len(t) : t[n] \in Whitespace
        /\ s # <<>> => (s[1] \notin Whitespace /\ s[Len(s)] \notin Whitespace)

(* The get that follows, on the same store, the add of a text that passes   *)
(* validation, asking for the id the add returned. *)
GetAfterAdd ==
    /\ vlast.op = "get"
    /\ vlast.after_add
    /\ vlast.input # <<>>
    /\ Len(vlast.input) <= MAX_REFLECTION_LENGTH
    /\ \A i \in 1..Len(vlast.input) : vlast.input[i] \in ALLOWED_CHARACTERS
    /\ \A pat \in dangerous_patterns : ~Contains(Upper(vlast.input), pat)

(* C2 as stated: for every text t that passes validation, get(add(t))       *)
(* returns exactly t, with created_at set and updated_at >= created_at. *)
C2_AsStated ==
    GetAfterAdd =>
        /\ vlast.status = "ok"
        /\ vlast.text = vlast.input
        /\ vlast.created >= 1
        /\ vlast.updated >= vlast.created

(* C2: for every text t that passes validation, get(add(t)) returns t       *)
(* without its leading and trailing whitespace (t itself when it has none), *)
(* with created_at set and updated_at >= created_at. *)
C2_RoundTripStripped ==
    GetAfterAdd =>
        /\ vlast.status = "ok"
        /\ IsStripOf(vlast.text, vlast.input)
        /\ vlast.created >= 1
        /\ vlast.updated >= vlast.created

C2_Witness ==
    /\ GetAfterAdd
    /\ vlast.status = "ok"
    /\ vlast.input = <<" ", "a">>
    /\ vlast.text = <<"a">>

(* A text without surrounding whitespace comes back as it went in. *)
C2_WitnessUnchanged ==
    /\ GetAfterAdd
    /\ vlast.status = "ok"
    /\ vlast.input = <<"a">>
    /\ vlast.text = <<"a">>

-----------------------------------------------------------------------------
(* Properties of load on malformed key files *)

(* The file holds something, but not a record load can use: it does not     *)
(* parse, its top level is no object, a required field of a version-1       *)
(* record is missing, or salt, encrypted_key or iterations are not what     *)
(* they must be. *)
Malformed(c) ==
    \/ c.kind \in {"raw", "partial", "binary", "json_value"}
    \/ /\ c.kind = "json" /\ c.version = 1
       /\ \/ ~({"salt", "key_hash", "iterations"} \subseteq c.has)
          \/ {"encrypted_key", "master_key"} \cap c.has = {}
          \/ c.salt = NotBase64
          \/ "encrypted_key" \in c.has /\ c.encrypted_key = UndecodableToken
          \/ c.iterations = TextIterations

(* C11, first half: load raises KeyNotFoundError exactly when there is no   *)
(* file at the key path. *)
C11_KeyNotFoundIffAbsent ==
    last.op = "load" =>
        (last.status = "KeyNotFoundError" <=> fs[KeyPath].kind = "absent")

(* C11: load raises KeyNotFoundError exactly when no file exists at the key *)
(* path; on every existing file whose content is a malformed record it      *)
(* raises InvalidKeyError; and no other kind of error escapes. *)
C11_LoadErrors ==
    last.op = "load" =>
        /\ last.status = "KeyNotFoundError" <=> fs[KeyPath].kind = "absent"
        /\ Malformed(fs[KeyPath]) => last.status = "InvalidKeyError"
        /\ last.status \in {"ok", "ok_legacy", "KeyNotFoundError", "InvalidKeyError"}

(* The load that shows it: the key file is the JSON text [] and             *)
(* AttributeError leaves load_master_key. *)
C11_ListEscapes ==
    /\ last.op = "load" /\ fs[KeyPath] = JsonListFile
    /\ last.status = "AttributeError"

C13_NonPositiveRaises ==
    vlast.op = "delete" /\ vlast.was = "open" /\ vlast.id = 0 /\ vlast.status = "ValidationError"

C14_IdsIncrease ==
    [][ /\ (vlast'.op = "add" /\ vlast'.status = "ok") =>
              /\ vlast'.id > seq
              /\ \A r \in tbl : r.id < vlast'.id
              /\ seq' = vlast'.id
              /\ seq = 0 => vlast'.id = 1
              /\ seq = 1 => vlast'.id = 2
        /\ ~(vlast'.op = "add" /\ vlast'.status = "ok") => seq' = seq ]_vars

(* C14, the case: an add after the row of every earlier id was removed. *)
C14_Witness ==
    vlast.op = "add" /\ vlast.status = "ok" /\ vlast.id > 1 /\ Cardinality(tbl) = 1

(* C15: close() never raises; the first call on a handle releases the       *)
(* connection, a later call changes nothing and the handle stays closed. *)
C15_CloseIdempotent ==
    [][ vlast'.op = "close" =>
          /\ vlast'.status = "ok"
          /\ vlast'.was \in {"open", "closed"}
          /\ \E h \in Handles : conn[h] = vlast'.was /\ conn' = [conn EXCEPT ![h] = "closed"]
          /\ vlast'.was = "closed" => conn' = conn
          /\ UNCHANGED <<tbl, seq, vkey, dbfile>> ]_vars

(* C15, the case: close() was called on a handle already closed. *)
C15_Witness ==
    vlast.op = "close" /\ vlast.was = "closed" /\ vlast.status = "ok"

(* C16: a handle only moves unopened -> open -> closed; once closed nothing *)
(* opens it again, and add, get, get_all, delete and erase_all on it fail   *)
(* with an error and leave the table as it was. *)
C16_ClosedStaysClosed ==
    [][ /\ \A h \in Handles :
              /\ conn[h] = "closed" => conn'[h] = "closed"
              /\ conn[h] = "open" => conn'[h] \in {"open", "closed"}
              /\ conn[h] = "unopened" => conn'[h] \in {"unopened", "open"}
        /\ ( /\ vlast'.was = "closed"
             /\ vlast'.op \in {"add", "get", "get_all", "delete", "erase_all"} ) =>
              /\ vlast'.status \in {"ValidationError", "TypeError", "AttributeError"}
              /\ UNCHANGED <<tbl, seq>> ]_vars

(* C16, the case: an add of a valid text on a closed handle of a table that *)
(* holds a row. *)
C16_Witness ==
    /\ vlast.op = "add" /\ vlast.was = "closed" /\ vlast.status \in WithNoneErrors
    /\ tbl # {}

(* The key of a construction is one no store accepts. *)
BadKey(k) == k \in {ShortKey, MalformedKey}

(* C17: construction checks the key before it touches data: with a key that *)
(* is too short or is not a well-formed cipher key, or one that fails the   *)
(* self-test, the construction fails, no connection is opened and the       *)
(* database file is neither created nor changed. *)
C17_KeyCheckedFirst ==
    [][ (vlast'.op = "open" /\ (BadKey(vlast'.key) \/ vlast'.status = "EncryptionError")) =>
          /\ vlast'.status # "ok"
          /\ UNCHANGED <<conn, vkey, dbfile, tbl, seq>> ]_vars

(* C17, the case: a construction with a malformed key at the path of a      *)
(* database that does not exist yet. *)
C17_Witness ==
    /\ vlast.op = "open" /\ vlast.key = MalformedKey /\ vlast.input = <<GoodPath>>
    /\ vlast.status # "ok"
    /\ ~dbfile

(* C18: a construction with a key shorter than the minimum fails with       *)
(* ValueError; a construction with a malformed cipher key fails with        *)
(* EncryptionError; every other failure of a construction is DatabaseError. *)
C18_OpenErrors ==
    (vlast.op = "open" /\ vlast.status # "ok") =>
        IF vlast.input # <<EmptyPath>> /\ vlast.key = ShortKey
        THEN vlast.status = "ValueError"
        ELSE IF vlast.input # <<EmptyPath>> /\ vlast.key = MalformedKey
        THEN vlast.status = "EncryptionError"
        ELSE vlast.status = "DatabaseError"

(* C18, the part that holds: a construction never lets an exception other   *)
(* than DatabaseError and EncryptionError out, and a failure to connect is  *)
(* DatabaseError. *)
C18_OnlyWrappedErrors ==
    (vlast.op = "open" /\ vlast.status # "ok") =>
        /\ vlast.status \in {"DatabaseError", "EncryptionError"}
        /\ vlast.key \in VaultKeys => vlast.status = "DatabaseError"

(* A construction with a malformed cipher key ended in DatabaseError. *)
C18_MalformedKeyIsDatabaseError ==
    /\ vlast.op = "open" /\ vlast.key = MalformedKey /\ vlast.input = <<GoodPath>>
    /\ vlast.status = "DatabaseError"

(* A construction with a short key ended in DatabaseError. *)
C18_ShortKeyIsDatabaseError ==
    /\ vlast.op = "open" /\ vlast.key = ShortKey /\ vlast.input = <<GoodPath>>
    /\ vlast.status = "DatabaseError"

(* Two characters that are the same letter, in either case. *)
SameLetter(a, b) ==
    a = b \/ \E k \in 1..26 : {a, b} = {LowerLetters[k], UpperLetters[k]}

(* pat occurs in t, letters compared without regard to case. *)
ContainsNoCase(t, pat) ==
    \E i \in 0..(Len(t) - Len(pat)) : \A j \in 1..Len(pat) : SameLetter(t[i + j], pat[j])

(* The first rule a text fails, in the order empty, length, characters,     *)
(* patterns; "ok" when it fails none. *)
FirstFailingRule(t) ==
    IF Len(t) = 0 THEN "empty"
    ELSE IF Len(t) >= MAX_REFLECTION_LENGTH + 1 THEN "too_long"
    ELSE IF \E i \in 1..Len(t) : t[i] \notin ALLOWED_CHARACTERS THEN "invalid_chars"
    ELSE IF \E pat \in dangerous_patterns : ContainsNoCase(t, pat) THEN "dangerous"
    ELSE "ok"

(* C19: add(text) with a text that fails validation raises ValidationError  *)
(* before anything is encrypted or written: no row is inserted, no id is    *)
(* used up, every row stays as it was. *)
C19_InvalidAddChangesNothing ==
    [][ (vlast'.op = "add" /\ FirstFailingRule(vlast'.input) # "ok") =>
          /\ vlast'.status = "ValidationError"
          /\ UNCHANGED <<tbl, seq, vkey, conn, dbfile>> ]_vars

(* C19, the case: an add of a text with a character outside the allow-list, *)
(* on an open store that holds a row. *)
C19_Witness ==
    /\ vlast.op = "add" /\ vlast.was = "open" /\ vlast.input = <<"#">>
    /\ vlast.status = "ValidationError"
    /\ tbl # {}

(* C20: validate_reflection_text accepts a text exactly when it is not      *)
(* empty, has at most 5000 characters, all of them allow-listed, and holds  *)
(* no blacklisted substring in any letter case; every other text is         *)
(* rejected, for the first rule it fails in the order empty, length,        *)
(* characters, patterns. *)
C20_FirstFailingRuleReported ==
    vlast.op = "validate" => vlast.status = FirstFailingRule(vlast.input)

(* C20, the case: a blacklisted word in lower case inside a text of allowed *)
(* characters was rejected by the pattern rule. *)
C20_Witness ==
    /\ vlast.op = "validate" /\ vlast.input = <<"a","d","r","o","p","x">>
    /\ vlast.status = "dangerous"

(* C20, the case of the maximum length: a text of exactly 5000 allowed      *)
(* characters was accepted. *)
C20_MaxLengthAccepted ==
    /\ vlast.op = "validate" /\ Len(vlast.input) = MAX_REFLECTION_LENGTH
    /\ vlast.status = "ok"

(* C21: get_stats never changes the table and never lets a failure out:     *)
(* whenever the query or the file-size lookup fails, in whatever state the  *)
(* handle is, it returns the zeroed struct; otherwise its count is the      *)
(* number of rows in the table. *)
C21_StatsNeverRaises ==
    [][ vlast'.op = "stats" =>
          /\ tbl' = tbl
          /\ vlast'.status = "ok"
          /\ Len(vlast'.rows) = 1
          /\ \/ vlast'.rows[1] = ZeroStats
             \/ vlast'.rows[1].total_reflections = Cardinality(tbl) ]_vars

(* C21, the part that holds: on an open handle get_stats returns the zeroed *)
(* struct when the query or the size lookup fails, and otherwise the number *)
(* of rows; the table is as it was. *)
C21_OpenHandleStats ==
    [][ (vlast'.op = "stats" /\ vlast'.was = "open") =>
          /\ UNCHANGED <<tbl, seq>>
          /\ vlast'.status = "ok"
          /\ vlast'.input # <<"none">> => vlast'.rows = <<ZeroStats>>
          /\ vlast'.input = <<"none">> =>
                vlast'.rows[1].total_reflections = Cardinality(tbl) ]_vars

(* get_stats on a closed handle raised AttributeError. *)
C21_ClosedHandleRaises ==
    vlast.op = "stats" /\ vlast.was = "closed" /\ vlast.status = "AttributeError"

(* C22: secure_delete_file never raises. *)
C22_NeverRaises ==
    dlast \in {"none", "returned"}

(* C22, the part that holds: for a missing file the call returns and does   *)
(* nothing; inside the try block the file is unlinked only after its full   *)
(* length was written over with random bytes; a failure of the overwrite or *)
(* the unlink leads to the plain delete, whose failure is passed over. *)
C22_OverwriteBeforeUnlink ==
    [][ /\ (dpc = "idle" /\ ~dfile.exists /\ dlast' = "returned") => dfile' = dfile
        /\ (dfile.exists /\ ~dfile'.exists /\ dpc # "except") =>
              /\ dfile.size = dsize
              /\ dsize > 0 => dfile.data = "random"
        /\ (dpc \in {"try", "sized", "opened", "written", "except"}) =>
              dlast' \in {"none", "returned"}
        /\ dpc = "except" => dpc' = "idle" /\ dlast' = "returned" ]_vars

(* C22, the case: the overwritten file is about to be unlinked. *)
C22_Overwritten ==
    dpc = "written" /\ dfile.data = "random" /\ dfile.size = MaxSize

(* secure_delete_file raised OSError from its exists() check, the file      *)
(* still in place with its data. *)
C22_ExistsRaises ==
    dlast = "OSError" /\ dfile.exists /\ dfile.data = "secret"

(* The text a row holds, read with key k. *)
TextOf(r) == r.encrypted_text.pt.utf8

(* C23: when several handles opened on the same database file with the same *)
(* key each add records, in any interleaving, every add returns an id no    *)
(* other add returned, and afterwards get(id) on any handle returns the     *)
(* text added under that id and get_all returns all of them. *)
C23_SharedDatabase ==
    [][ /\ (vlast'.op = "add" /\ vlast'.status = "ok") =>
              /\ \A r \in tbl : r.id # vlast'.id
              /\ vlast'.id > seq
              /\ \E r \in tbl' : /\ r.id = vlast'.id
                                 /\ TextOf(r) = vlast'.input
                                 /\ tbl' = tbl \cup {r}
        /\ (vlast'.op = "get" /\ vlast'.was = "open") =>
              /\ tbl' = tbl
              /\ \A r \in tbl : r.id = vlast'.id =>
                    vlast'.status = "ok" /\ vlast'.text = TextOf(r)
        /\ (vlast'.op = "get_all" /\ vlast'.was = "open") =>
              /\ tbl' = tbl
              /\ vlast'.status = "ok"
              /\ Len(vlast'.rows) = Cardinality(tbl)
              /\ \A r \in tbl : \E i \in 1..Len(vlast'.rows) :
                    vlast'.rows[i].id = r.id /\ vlast'.rows[i].text = TextOf(r) ]_vars

(* C23, the case: the second handle's text was added after the first        *)
(* handle's, and is read through the first handle, the second one closed. *)
C23_Witness ==
    /\ vlast.op = "get" /\ vlast.status = "ok" /\ vlast.was = "open"
    /\ vlast.text = HandleText(2) /\ vlast.id > 1
    /\ conn[1] = "open" /\ conn[2] = "closed"
    /\ \E r \in tbl : r.id < vlast.id /\ TextOf(r) = HandleText(1)

(* The keys whose entries have not expired. *)
Live == {k \in CacheKeys : cache[k] # NoEntry /\ cache[k] > ctime}

(* C24: a TTLCache with max_size >= 1 never holds more than max_size        *)
(* entries; a set on a full cache first drops the expired entries and, if   *)
(* the cache is still full, evicts one entry of the earliest expiry, then   *)
(* stores. *)
C24_SizeBounded ==
    [][ /\ Cardinality({k \in CacheKeys : cache'[k] # NoEntry}) <= cmax'
        /\ ( /\ clast'.op = "set"
             /\ Cardinality({k \in CacheKeys : cache[k] # NoEntry}) >= cmax ) =>
              /\ cache'[clast'.key] # NoEntry
              /\ IF Cardinality(Live) < cmax
                 THEN \A k \in CacheKeys \ {clast'.key} :
                         cache'[k] = IF k \in Live THEN cache[k] ELSE NoEntry
                 ELSE \E v \in Live :
                         /\ \A o \in Live : cache[v] <= cache[o]
                         /\ \A k \in CacheKeys \ {clast'.key} :
                               cache'[k] = IF k \in Live \ {v} THEN cache[k] ELSE NoEntry ]_vars

(* C24, the case: a set on a full cache with nothing expired evicted an     *)
(* entry, and the cache is full again. *)
C24_Witness ==
    /\ clast.op = "set" /\ clast.evicted
    /\ cmax = MaxCacheSize
    /\ Cardinality({k \in CacheKeys : cache[k] # NoEntry}) = cmax

C26_BlockedInsideContext ==
    (nlast.inside # <<>> /\ ~Allows(nlast.inside[Len(nlast.inside)], nlast.address))
        => nlast.outcome = "NetworkAccessBlocked"

(* C26, the part the code keeps: in a context in which no nested context    *)
(* has been left, a connect to an address the context does not permit       *)
(* raises NetworkAccessBlocked. *)
C26_BlockedUntilNestedExit ==
    (/\ nlast.inside # <<>>
     /\ ~nlast.nested_left
     /\ ~Allows(nlast.inside[Len(nlast.inside)], nlast.address))
        => nlast.outcome = "NetworkAccessBlocked"

(* C26, the case: inside a context that permits no loopback at all, after a *)
(* nested context was left, a connect to a remote host went through. *)
C26_NestedExitUnguarded ==
    /\ Len(nlast.inside) = 1
    /\ ~nlast.inside[1].allow_loopback
    /\ nlast.nested_left
    /\ nlast.address = Address("93.184.216.34", 443)
    /\ nlast.outcome = "connected"

(* C27: load derives the wrapping key of a version-1 wrapped record from    *)
(* the salt and the iterations stored in the record, which is the key the    *)
(* save that wrote the record derived from the same password; so a load      *)
(* with the password of the save unwraps the record and returns the saved   *)
(* key, also when the stored iterations are not the manager's constant. *)
C27_StoredIterations ==
    /\ (korigin.by \in {"save", "build"} /\ Truthy(korigin.spw)) =>
          fs[KeyPath].encrypted_key.k =
              PBKDF2(korigin.spw, 0, fs[KeyPath].salt, fs[KeyPath].iterations \div 10)
    /\ (/\ last.op = "load"
        /\ last.origin.by \in {"save", "build"}
        /\ Truthy(last.pw)
        /\ last.pw = last.origin.spw)
           => (last.status = "ok" /\ last.key = last.origin.key)

(* C27, the case: a record of a build with twice the work factor was        *)
(* loaded with its password. *)
C27_Witness ==
    /\ last.op = "load" /\ last.status = "ok"
    /\ korigin.by = "build"
    /\ fs[KeyPath].iterations = ITERATIONS * 2
    /\ last.key = PersistedKey(fs[KeyPath])

(* C28: no call of the store edits a row: a row stays as add wrote it --     *)
(* ciphertext, checksum, created_at and updated_at -- until a delete or an   *)
(* erase_all removes it, and its updated_at equals its created_at. *)
C28_RowsImmutable ==
    [][ /\ \A r \in tbl :
              \/ r \in tbl'
              \/ /\ vlast'.op \in {"delete", "erase_all"}
                 /\ \A o \in tbl' : o.id # r.id
        /\ \A r \in tbl' : r.updated_at = r.created_at ]_vars

(* C28, the case: a row written at an earlier time is still in the table    *)
(* after a later add and the delete of another row. *)
C28_Witness ==
    /\ vlast.op = "delete" /\ vlast.status = "True"
    /\ \E r \in tbl : r.created_at < clock /\ r.id < seq /\ r.id # vlast.id

(* C29: a load that fails -- with KeyNotFoundError, InvalidKeyError or any  *)
(* other error, on the version-1 or on the legacy path -- leaves every      *)
(* manager's in-memory key and salt and the key file as they were. *)
C29_FailedLoadChangesNothing ==
    [][ (last'.op = "load" /\ last'.status \notin {"ok", "ok_legacy"})
            => (mk' = mk /\ msalt' = msalt /\ fs' = fs) ]_vars

(* C29, the case: with a key and a salt in memory, a load failed on the     *)
(* legacy path. *)
C29_WitnessLegacy ==
    /\ last.op = "load" /\ last.status = "InvalidKeyError"
    /\ fs[KeyPath].kind = "json" /\ "version" \notin fs[KeyPath].has
    /\ \A m \in Managers : mk[m] # NoKey /\ msalt[m] # 0

(* C29: the same on the version-1 path, and with no key file. *)
C29_WitnessV1 ==
    /\ last.op = "load" /\ last.status = "InvalidKeyError"
    /\ fs[KeyPath].kind = "json" /\ fs[KeyPath].version = 1
    /\ \A m \in Managers : mk[m] # NoKey /\ msalt[m] # fs[KeyPath].salt

C29_WitnessNotFound ==
    /\ last.op = "load" /\ last.status = "KeyNotFoundError"
    /\ \A m \in Managers : mk[m] # NoKey /\ msalt[m] # 0

(* C30: a rotation replaces the in-memory key and the persisted record      *)
(* together or not at all: a manager whose key a rotate call has changed,   *)
(* also a call that failed in its save, holds the key of the record at the  *)
(* key path. *)
C30_RotateAtomic ==
    [][ last'.op = "rotate" =>
            \A m \in Managers : mk'[m] # mk[m] => mk'[m] = PersistedKey(fs'[KeyPath]) ]_vars

(* C30, the part the code keeps: a rotation that returns has put its new    *)
(* key both in memory and in the record, and a rotation whose save failed   *)
(* has left the key file as it was. *)
C30_RotateReturnsOrKeepsFile ==
    [][ last'.op = "rotate" =>
            IF last'.status = "ok"
            THEN /\ last'.key = PersistedKey(fs'[KeyPath])
                 /\ \E m \in Managers : mk'[m] = last'.key
            ELSE fs'[KeyPath] = fs[KeyPath] ]_vars

(* C30, the case: a key file saved with password "p", and after a rotate    *)
(* that failed in its save a manager holding a key that is not the file's. *)
C30_FailedRotateKeyDiffers ==
    /\ last.op = "rotate" /\ last.status = "OSError"
    /\ korigin.by = "save" /\ korigin.spw = "p"
    /\ \E m \in Managers : /\ mk[m] # NoKey /\ mk[m].salt > fs[KeyPath].salt
                          /\ mk[m] # PersistedKey(fs[KeyPath])

====
